---- MODULE Spec2Model ----
(***************************************************************************)
(* Model of the pose analytics pipeline of 3d-posture-analytics:           *)
(*   AnalyticsEngine (backend/app/services/analytics_engine.py) and        *)
(*   InjuryPredictor (backend/app/services/injury_predictor.py).           *)
(*                                                                         *)
(* Numbers.  Landmark coordinates are fixed-point hundredths of the        *)
(* normalised image coordinate (x = 50 stands for 0.50).  A 0..100 score   *)
(* that the code computes as 100 - d*100 is therefore 100 - d here.        *)
(* Averages are exact rationals <<numerator, denominator>>.  Angles are    *)
(* whole degrees, rounded down.  Python's None is the empty tuple and a    *)
(* present value v is <<v>>, so that TLC never compares unlike values.     *)
(***************************************************************************)
EXTENDS Integers, Sequences, FiniteSets, TLC

VARIABLES pose_data, analytics, risk, pc, engine, uploads, req, args, result

vars == <<pose_data, analytics, risk, pc, engine, uploads, req, args, result>>

(************************** bounds of the model ****************************)
\* longest sequence drawn from the full frame alphabet
MaxFrames == 3
\* longest sequence drawn from the two-letter alphabet (detected/undetected)
MaxLongFrames == 11
\* longest joint-angle series handed directly to the predictor
MaxSeries == 2
\* frames of the sequences with a single odd frame among neutral ones
MaxSpikeFrames == 16
\* longest sequence handed to the frame stages (the smoothing window is 5)
MaxStageFrames == 6

(************************** optional values ********************************)
\* d.get(k, default)
GetOr(d, k, default) == IF k \in DOMAIN d THEN d[k] ELSE default

None == <<>>

Some(v) == <<v>>

IsNone(o) == o = <<>>

Val(o) == o[1]

(************************** small arithmetic *******************************)
Abs(n) == IF n < 0 THEN 0 - n ELSE n

Max2(a, b) == IF a >= b THEN a ELSE b

Min2(a, b) == IF a <= b THEN a ELSE b

RECURSIVE SqrtIter(_, _, _)
SqrtIter(n, lo, hi) ==
    IF lo >= hi THEN lo
    ELSE LET mid == (lo + hi + 1) \div 2
         IN  IF mid * mid <= n THEN SqrtIter(n, mid, hi)
             ELSE SqrtIter(n, lo, mid - 1)

\* np.sqrt / np.linalg.norm on the fixed-point grid: rounded down
Sqrt(n) == SqrtIter(n, 0, Min2(n, 46340))

RECURSIVE SeqSum(_)
SeqSum(s) == IF s = <<>> THEN 0 ELSE s[1] + SeqSum(Tail(s))

RECURSIVE SeqMax(_)
SeqMax(s) == IF Len(s) = 1 THEN s[1] ELSE Max2(s[1], SeqMax(Tail(s)))

RECURSIVE SeqMin(_)
SeqMin(s) == IF Len(s) = 1 THEN s[1] ELSE Min2(s[1], SeqMin(Tail(s)))

\* the present entries of a series, in order: [a for a in s if a is not None]
RECURSIVE Present(_)
Present(s) ==
    IF s = <<>> THEN <<>>
    ELSE IF IsNone(s[1]) THEN Present(Tail(s))
         ELSE <<Val(s[1])>> \o Present(Tail(s))

(************************** rationals **************************************)
RECURSIVE Gcd(_, _)
Gcd(a, b) == IF b = 0 THEN a ELSE Gcd(b, a % b)

\* n/d in lowest terms, d > 0
Rat(n, d) ==
    LET g == Gcd(Abs(n), d)
    IN  IF n = 0 THEN <<0, 1>> ELSE <<n \div g, d \div g>>

RInt(n) == <<n, 1>>

RLess(p, q) == p[1] * q[2] < q[1] * p[2]

RLeq(p, q) == p[1] * q[2] <= q[1] * p[2]

RAdd(p, q) == Rat(p[1] * q[2] + q[1] * p[2], p[2] * q[2])

\* np.mean of a non-empty list of integers
MeanInt(s) == Rat(SeqSum(s), Len(s))

RECURSIVE RSum(_)
RSum(s) == IF s = <<>> THEN <<0, 1>> ELSE RAdd(s[1], RSum(Tail(s)))

\* np.mean of a non-empty list of rationals
MeanRat(s) == LET t == RSum(s) IN Rat(t[1], t[2] * Len(s))

(************************** landmarks and frames ***************************)
Ids == 0 .. 32

Pt(x, y, z) == [x |-> x, y |-> y, z |-> z]

\* A person standing upright, arms hanging, facing the camera.
PoseNeutral ==
    [i \in Ids |->
        CASE i = 11 -> Pt(60, 20, 0)  [] i = 12 -> Pt(40, 20, 0)
          [] i = 13 -> Pt(60, 34, 0)  [] i = 14 -> Pt(40, 34, 0)
          [] i \in {15, 17, 19, 21} -> Pt(60, 48, 0)
          [] i \in {16, 18, 20, 22} -> Pt(40, 48, 0)
          [] i = 23 -> Pt(56, 50, 0)  [] i = 24 -> Pt(44, 50, 0)
          [] i = 25 -> Pt(56, 66, 0)  [] i = 26 -> Pt(44, 66, 0)
          [] i \in {27, 29, 31} -> Pt(56, 82, 0)
          [] i \in {28, 30, 32} -> Pt(44, 82, 0)
          [] OTHER -> Pt(50, 10, 0)]

\* The left knee pushed sideways and the left ankle lifted.
PoseBent ==
    [PoseNeutral EXCEPT ![25] = Pt(76, 66, 0), ![27] = Pt(56, 70, 0)]

\* The left shoulder dropped and the head off the mid line.
PoseTilted ==
    [PoseNeutral EXCEPT ![11] = Pt(60, 60, 0), ![0] = Pt(90, 10, 0)]

\* The nose and the left wrist reported outside the image (a coordinate
\* above 1).
PoseOffFrame ==
    [PoseNeutral EXCEPT ![0] = Pt(170, 10, 0), ![15] = Pt(60, 152, 0)]

\* Both arms raised straight above the shoulders.
PoseArmsUp ==
    [i \in Ids |->
        IF i \in {13, 14} THEN Pt(PoseNeutral[i].x, 10, 0)
        ELSE IF i \in 15 .. 22 THEN Pt(PoseNeutral[i].x, 0, 0)
        ELSE PoseNeutral[i]]

\* A frame is kept in the state by what fills it: whether it has the
\* "landmarks" key, the pose the estimator saw ("none": an empty list) and
\* the landmark ids whose entry is falsy (None).
Frame(haskey, pose, missing) == [haskey |-> haskey, pose |-> pose, missing |-> missing]

NoKeyFrame == Frame(FALSE, "none", {})

\* what PoseEstimator.process_frames emits when no pose is detected
UndetectedFrame == Frame(TRUE, "none", {})

\* a detected frame: 33 entries, those in `missing` falsy
FrameOf(pose, missing) == Frame(TRUE, pose, missing)

PoseNamed(name) ==
    CASE name = "neutral" -> PoseNeutral
      [] name = "bent"    -> PoseBent
      [] name = "tilted"  -> PoseTilted
      [] name = "offframe" -> PoseOffFrame
      [] name = "armsup"  -> PoseArmsUp

\* frame_data["landmarks"]: the list, entry k + 1 for landmark id k
LandmarksList(f) ==
    IF f.pose = "none" THEN <<>>
    ELSE [k \in 1 .. 33 |->
            IF (k - 1) \in f.missing THEN None ELSE Some(PoseNamed(f.pose)[k - 1])]

\* `"landmarks" not in frame_data or not frame_data["landmarks"]`
NoLandmarks(f) == ~f.haskey \/ LandmarksList(f) = <<>>

\* {idx: lm for idx, lm in enumerate(landmarks_list) if lm and isinstance(lm, dict)}
LandmarkDict(f) ==
    LET list == LandmarksList(f)
    IN  [i \in {j \in 0 .. Len(list) - 1 : ~IsNone(list[j + 1])} |-> Val(list[i + 1])]

\* all(k in landmarks for k in ks)
HasAll(lms, ks) == ks \subseteq DOMAIN lms

(************************** geometry ***************************************)
\* round(10^4 * cos(k degrees)), k = 0 .. 90
CosTable ==
    <<10000, 9998, 9994, 9986, 9976, 9962, 9945, 9925, 9903, 9877,
      9848, 9816, 9781, 9744, 9703, 9659, 9613, 9563, 9511, 9455,
      9397, 9336, 9272, 9205, 9135, 9063, 8988, 8910, 8829, 8746,
      8660, 8572, 8480, 8387, 8290, 8192, 8090, 7986, 7880, 7771,
      7660, 7547, 7431, 7314, 7193, 7071, 6947, 6820, 6691, 6561,
      6428, 6293, 6157, 6018, 5878, 5736, 5592, 5446, 5299, 5150,
      5000, 4848, 4695, 4540, 4384, 4226, 4067, 3907, 3746, 3584,
      3420, 3256, 3090, 2924, 2756, 2588, 2419, 2250, 2079, 1908,
      1736, 1564, 1392, 1219, 1045, 872, 698, 523, 349, 175, 0>>

Cos4(k) == IF k <= 90 THEN CosTable[k + 1] ELSE 0 - CosTable[181 - k]

\* the largest k in lo .. hi with num <= Cos4(k) * den (Cos4 is decreasing)
RECURSIVE ArcCosDeg(_, _, _, _)
ArcCosDeg(num, den, lo, hi) ==
    IF lo >= hi THEN lo
    ELSE LET mid == (lo + hi + 1) \div 2
         IN  IF num <= Cos4(mid) * den THEN ArcCosDeg(num, den, mid, hi)
             ELSE ArcCosDeg(num, den, lo, mid - 1)

\* AnalyticsEngine.calculate_angle: the angle at point2, in whole degrees.
\* cos = dot / (|v1| |v2| + 1e-6); on the hundredths grid the product of the
\* norms is in units of 1e-4, so the epsilon is 0.01 of a unit, i.e. 1 when the
\* product is taken in hundredths of a unit (10 * Sqrt(100 * n1 * n2)).
\* The angle is at least k degrees iff cos <= cos(k); cos never exceeds 1, so
\* np.clip changes nothing.
calculate_angle(point1, point2, point3) ==
    LET v1  == <<point1.x - point2.x, point1.y - point2.y, point1.z - point2.z>>
        v2  == <<point3.x - point2.x, point3.y - point2.y, point3.z - point2.z>>
        dot == v1[1] * v2[1] + v1[2] * v2[2] + v1[3] * v2[3]
        n1  == v1[1] * v1[1] + v1[2] * v1[2] + v1[3] * v1[3]
        n2  == v2[1] * v2[1] + v2[2] * v2[2] + v2[3] * v2[3]
    IN  ArcCosDeg(dot * 1000000, 10 * Sqrt(100 * n1 * n2) + 1, 0, 180)

\* the midpoint of two landmarks, as the code builds mid_shoulder / mid_hip
Mid(a, b) == Pt((a.x + b.x) \div 2, (a.y + b.y) \div 2, (a.z + b.z) \div 2)

(************************** compute_joint_angles ***************************)
JointKeys ==
    {"left_shoulder", "right_shoulder", "left_elbow", "right_elbow",
     "left_hip", "right_hip", "left_knee", "right_knee", "neck", "spine"}

\* one `if all(k in landmarks ...): append(angle) else: append(None)` block
AngleOrNone(lms, a, b, c) ==
    IF HasAll(lms, {a, b, c})
    THEN Some(calculate_angle(lms[a], lms[b], lms[c]))
    ELSE None

\* the neck block (lines 183-193)
NeckEntry(lms) ==
    IF HasAll(lms, {0, 11, 12})
    THEN Some(calculate_angle(lms[0], Mid(lms[11], lms[12]), lms[11]))
    ELSE None

\* The spine block (lines 196-211) tests landmarks 11, 23, 24 and then reads
\* landmarks[12]: a frame holding 11, 23, 24 without 12 raises KeyError.
SpineRaises(lms) == HasAll(lms, {11, 23, 24}) /\ 12 \notin DOMAIN lms

SpineEntry(lms) ==
    IF HasAll(lms, {11, 23, 24})
    THEN Some(calculate_angle(Mid(lms[11], lms[12]), Mid(lms[23], lms[24]), lms[23]))
    ELSE None

\* variant: the angle at the shoulder, between the hip and the elbow
ShoulderEntryAtShoulder(lms, s, e, w) == AngleOrNone(lms, s + 12, s, e)

\* the "Shoulders" block (lines 152-165):
\* calculate_angle(landmarks[11], landmarks[13], landmarks[15]) and its mirror
ShoulderEntry(lms, s, e, w) == AngleOrNone(lms, s, e, w)

\* variant: an undetected frame is skipped without appending
UndetectedEntriesSkipped == [k \in JointKeys |-> <<>>]

\* `for key in angles: angles[key].append(None)` (lines 115-118)
UndetectedEntries == [k \in JointKeys |-> <<None>>]

\* what one pass of the loop body appends to each of the ten series
FrameAngles(f) ==
    IF NoLandmarks(f) THEN UndetectedEntries
    ELSE LET lms == LandmarkDict(f)
         IN  [k \in JointKeys |->
                CASE k = "left_elbow"     -> <<AngleOrNone(lms, 11, 13, 15)>>
                  [] k = "right_elbow"    -> <<AngleOrNone(lms, 12, 14, 16)>>
                  [] k = "left_knee"      -> <<AngleOrNone(lms, 23, 25, 27)>>
                  [] k = "right_knee"     -> <<AngleOrNone(lms, 24, 26, 28)>>
                  [] k = "left_shoulder"  -> <<ShoulderEntry(lms, 11, 13, 15)>>
                  [] k = "right_shoulder" -> <<ShoulderEntry(lms, 12, 14, 16)>>
                  [] k = "left_hip"       -> <<AngleOrNone(lms, 11, 23, 25)>>
                  [] k = "right_hip"      -> <<AngleOrNone(lms, 12, 24, 26)>>
                  [] k = "neck"           -> <<NeckEntry(lms)>>
                  [] k = "spine"          -> <<SpineEntry(lms)>>]

\* the frame whose loop body raises, if any
FrameRaises(f) == ~NoLandmarks(f) /\ SpineRaises(LandmarkDict(f))

RECURSIVE JointSeries(_)
JointSeries(pd) ==
    IF pd = <<>> THEN [k \in JointKeys |-> <<>>]
    ELSE LET head == FrameAngles(pd[1])
             rest == JointSeries(Tail(pd))
         IN  [k \in JointKeys |-> head[k] \o rest[k]]

\* AnalyticsEngine.compute_joint_angles: the ten series, or the exception
compute_joint_angles(pd) ==
    IF \E i \in 1 .. Len(pd) : FrameRaises(pd[i])
    THEN [raised |-> TRUE, angles |-> [k \in JointKeys |-> <<>>]]
    ELSE [raised |-> FALSE, angles |-> JointSeries(pd)]

(************************** compute_posture_metrics ************************)
\* the frames that carry landmarks, in order
RECURSIVE DetectedDicts(_)
DetectedDicts(pd) ==
    IF pd = <<>> THEN <<>>
    ELSE IF NoLandmarks(pd[1]) THEN DetectedDicts(Tail(pd))
         ELSE <<LandmarkDict(pd[1])>> \o DetectedDicts(Tail(pd))

\* variant: the score without the lower clamp
Score100Unclamped(d) == 100 - d

\* max(0, 100 - d * 100) with d in hundredths
Score100(d) == Max2(0, 100 - d)

\* the per-frame scores of the frames holding nose, shoulders and hips
RECURSIVE PostureScores(_, _)
PostureScores(dicts, which) ==
    IF dicts = <<>> THEN <<>>
    ELSE LET lms == dicts[1]
             rest == PostureScores(Tail(dicts), which)
         IN  IF ~HasAll(lms, {0, 11, 12, 23, 24}) THEN rest
             ELSE CASE which = "spine" ->
                         <<Score100(Abs(lms[0].x - (lms[11].x + lms[12].x) \div 2))>> \o rest
                    [] which = "shoulder" ->
                         <<Score100(Abs(lms[11].y - lms[12].y))>> \o rest
                    [] which = "hip" ->
                         <<Score100(Abs(lms[23].y - lms[24].y))>> \o rest

\* float(np.mean(xs)) if xs else 0
MeanOrZero(xs) == IF xs = <<>> THEN RInt(0) ELSE MeanInt(xs)

\* AnalyticsEngine.compute_posture_metrics (average_head_tilt is not modelled:
\* nothing downstream reads it)
compute_posture_metrics(pd) ==
    LET dicts    == DetectedDicts(pd)
        spine    == MeanOrZero(PostureScores(dicts, "spine"))
        shoulder == MeanOrZero(PostureScores(dicts, "shoulder"))
        hip      == MeanOrZero(PostureScores(dicts, "hip"))
    IN  [spine_alignment_score  |-> spine,
         shoulder_balance_score |-> shoulder,
         hip_balance_score      |-> hip,
         overall_posture_score  |-> MeanRat(<<spine, shoulder, hip>>),
         posture_grade          |-> "A"]

(************************** compute_symmetry_analysis **********************)
\* symmetric_pairs, in the order of the list; the labels are name.lower()
SymmetricPairs ==
    << <<11, 12, "shoulders">>, <<13, 14, "elbows">>, <<15, 16, "wrists">>,
       <<23, 24, "hips">>, <<25, 26, "knees">>, <<27, 28, "ankles">> >>

PairLabels == {SymmetricPairs[i][3] : i \in 1 .. Len(SymmetricPairs)}

RECURSIVE PairScores(_, _, _)
PairScores(dicts, l, r) ==
    IF dicts = <<>> THEN <<>>
    ELSE LET lms == dicts[1]
             rest == PairScores(Tail(dicts), l, r)
         IN  IF l \in DOMAIN lms /\ r \in DOMAIN lms
             THEN <<Score100(Abs(lms[l].y - lms[r].y))>> \o rest
             ELSE rest

\* variant: the first pair whose score is maximal
MostSymmetric(by_part) ==
    LET n == Len(SymmetricPairs)
        i == CHOOSE i \in 1 .. n :
                /\ \A j \in 1 .. n :
                      RLeq(by_part[SymmetricPairs[j][3]], by_part[SymmetricPairs[i][3]])
                /\ \A j \in 1 .. i - 1 :
                      RLess(by_part[SymmetricPairs[j][3]], by_part[SymmetricPairs[i][3]])
    IN  SymmetricPairs[i][3]

\* min(pair_symmetry.items(), key=lambda x: x[1])[0]: the first pair, in
\* insertion order, whose score is minimal
MostAsymmetric(by_part) ==
    LET n == Len(SymmetricPairs)
        i == CHOOSE i \in 1 .. n :
                /\ \A j \in 1 .. n :
                      RLeq(by_part[SymmetricPairs[i][3]], by_part[SymmetricPairs[j][3]])
                /\ \A j \in 1 .. i - 1 :
                      RLess(by_part[SymmetricPairs[i][3]], by_part[SymmetricPairs[j][3]])
    IN  SymmetricPairs[i][3]

\* AnalyticsEngine.compute_symmetry_analysis
compute_symmetry_analysis(pd) ==
    LET dicts   == DetectedDicts(pd)
        avg(i)  == MeanOrZero(PairScores(dicts, SymmetricPairs[i][1], SymmetricPairs[i][2]))
        by_part == [lab \in PairLabels |->
                      avg(CHOOSE i \in 1 .. Len(SymmetricPairs) : SymmetricPairs[i][3] = lab)]
        overall == MeanRat([i \in 1 .. Len(SymmetricPairs) |-> avg(i)])
    IN  [overall_score      |-> overall,
         by_body_part       |-> by_part,
         imbalance_detected |-> RLess(overall, RInt(80)),
         most_asymmetric    |-> MostAsymmetric(by_part)]

(************************** compute_motion_metrics *************************)
\* np.sqrt(dx**2 + dy**2 + dz**2) between two positions of one landmark
Dist3(p, q) ==
    Sqrt((q.x - p.x) * (q.x - p.x) + (q.y - p.y) * (q.y - p.y)
         + (q.z - p.z) * (q.z - p.z))

\* the consecutive pairs of frames that both carry landmarks (lines
\* 289-292), as <<landmarks_curr, landmarks_next>>
RECURSIVE MotionPairs(_)
MotionPairs(pd) ==
    IF Len(pd) < 2 THEN <<>>
    ELSE IF NoLandmarks(pd[1]) \/ NoLandmarks(pd[2]) THEN MotionPairs(Tail(pd))
         ELSE << <<LandmarkDict(pd[1]), LandmarkDict(pd[2])>> >> \o MotionPairs(Tail(pd))

\* velocities[lm_id]: one sample per such pair in which both frames hold
\* the landmark
RECURSIVE LandmarkVelocities(_, _)
LandmarkVelocities(pairs, id) ==
    IF pairs = <<>> THEN <<>>
    ELSE LET curr == pairs[1][1]
             next == pairs[1][2]
             rest == LandmarkVelocities(Tail(pairs), id)
         IN  IF id \in DOMAIN curr /\ id \in DOMAIN next
             THEN <<Dist3(curr[id], next[id])>> \o rest
             ELSE rest

\* the largest of a non-empty set of rationals
RMaxOf(S) == CHOOSE m \in S : \A o \in S : RLeq(o, m)

\* the range of motion of one landmark over the frames that hold it
RangeOfMotion(dicts, id) ==
    LET held == {j \in 1 .. Len(dicts) : id \in DOMAIN dicts[j]}
        xs    == {dicts[j][id].x : j \in held}
        ys    == {dicts[j][id].y : j \in held}
        zs    == {dicts[j][id].z : j \in held}
        ext(S) == (CHOOSE m \in S : \A o \in S : o <= m)
                  - (CHOOSE m \in S : \A o \in S : m <= o)
    IN  IF held = {} THEN 0
        ELSE Sqrt(ext(xs) * ext(xs) + ext(ys) * ext(ys) + ext(zs) * ext(zs))

\* AnalyticsEngine.calculate_range_of_motion
calculate_range_of_motion(pd) ==
    LET dicts == DetectedDicts(pd)
    IN  [id \in Ids |-> RangeOfMotion(dicts, id)]

\* AnalyticsEngine.__init__: the only field, the display names (none for the
\* hand landmarks 17 .. 22)
NewAnalyticsEngine ==
    [joint_names |->
        [k \in (0 .. 16) \cup (23 .. 32) |->
            CASE k = 0 -> "Nose"
              [] k = 1 -> "Left Eye Inner"   [] k = 2 -> "Left Eye"
              [] k = 3 -> "Left Eye Outer"   [] k = 4 -> "Right Eye Inner"
              [] k = 5 -> "Right Eye"        [] k = 6 -> "Right Eye Outer"
              [] k = 7 -> "Left Ear"         [] k = 8 -> "Right Ear"
              [] k = 9 -> "Mouth Left"       [] k = 10 -> "Mouth Right"
              [] k = 11 -> "Left Shoulder"   [] k = 12 -> "Right Shoulder"
              [] k = 13 -> "Left Elbow"      [] k = 14 -> "Right Elbow"
              [] k = 15 -> "Left Wrist"      [] k = 16 -> "Right Wrist"
              [] k = 23 -> "Left Hip"        [] k = 24 -> "Right Hip"
              [] k = 25 -> "Left Knee"       [] k = 26 -> "Right Knee"
              [] k = 27 -> "Left Ankle"      [] k = 28 -> "Right Ankle"
              [] k = 29 -> "Left Heel"       [] k = 30 -> "Right Heel"
              [] k = 31 -> "Left Foot Index" [] k = 32 -> "Right Foot Index"]]

\* variant: the names are dropped once a report has been computed
SelfAfterRunForgetful(self) == [self EXCEPT !.joint_names = <<>>]

\* the fields of the engine after one of its methods has run: no method
\* assigns to self
SelfAfterRun(self) == self

\* f"Joint {jid}" for jid < 100
JointLabel(jid) ==
    LET digit == <<"0", "1", "2", "3", "4", "5", "6", "7", "8", "9">>
    IN  IF jid < 10 THEN "Joint " \o digit[jid + 1]
        ELSE "Joint " \o digit[(jid \div 10) + 1] \o digit[(jid % 10) + 1]

\* the first n ids of sorted(rom.items(), key=value, reverse=True): the sort
\* is stable, so among equal values the smaller id comes first
RECURSIVE TopIds(_, _, _)
TopIds(rom, ids, n) ==
    IF n = 0 \/ ids = {} THEN <<>>
    ELSE LET top == CHOOSE i \in ids :
                        \A j \in ids : rom[j] < rom[i] \/ (rom[j] = rom[i] /\ i <= j)
         IN  <<top>> \o TopIds(rom, ids \ {top}, n - 1)

\* variant: the least active joints first
BottomJoints(rom, n) ==
    LET ids == TopIds([i \in DOMAIN rom |-> 0 - rom[i]], DOMAIN rom, n)
    IN  [k \in 1 .. Len(ids) |->
            [id |-> ids[k], name |-> GetOr(engine.joint_names, ids[k], JointLabel(ids[k])),
             value |-> rom[ids[k]]]]

\* AnalyticsEngine.get_top_joints
get_top_joints(rom, n) ==
    LET ids == TopIds(rom, DOMAIN rom, n)
    IN  [k \in 1 .. Len(ids) |->
            [id |-> ids[k], name |-> GetOr(engine.joint_names, ids[k], JointLabel(ids[k])),
             value |-> rom[ids[k]]]]

\* the motion metrics for a range-of-motion map
MotionReport(avg, rom) ==
    [average_velocities |-> avg,
     max_velocity       |-> RMaxOf({avg[id] : id \in Ids}),
     range_of_motion    |-> rom,
     most_active_joints |-> get_top_joints(rom, 5)]

\* AnalyticsEngine.compute_motion_metrics (avg_velocity is derived from the
\* same map as max_velocity)
compute_motion_metrics(pd) ==
    MotionReport([id \in Ids |-> MeanOrZero(LandmarkVelocities(MotionPairs(pd), id))],
                 calculate_range_of_motion(pd))

(************************** detect_anomalies *******************************)
\* total_velocity of one transition: the displacement summed over the
\* landmarks both frames hold
TotalVelocity(curr, next) ==
    LET both == DOMAIN curr \cap DOMAIN next
        d    == [id \in both |-> Dist3(curr[id], next[id])]
        RECURSIVE Sum(_)
        Sum(S) == IF S = {} THEN 0
                  ELSE LET id == CHOOSE id \in S : TRUE IN d[id] + Sum(S \ {id})
    IN  Sum(both)

\* The pair test of detect_anomalies (line 490): only the presence of the
\* "landmarks" key is tested, not whether the list is empty.
AnomalyPairSkipped(f, g) == ~f.haskey \/ ~g.haskey

\* the velocities list of detect_anomalies (lines 487-504)
RECURSIVE TransitionVelocities(_)
TransitionVelocities(pd) ==
    IF Len(pd) < 2 THEN <<>>
    ELSE LET rest == TransitionVelocities(Tail(pd))
         IN  IF AnomalyPairSkipped(pd[1], pd[2]) THEN rest
             ELSE <<TotalVelocity(LandmarkDict(pd[1]), LandmarkDict(pd[2]))>> \o rest

\* abs((vel - mean) / (std + 1e-6)) > 2.5, exactly.  With n values of sum S
\* and sum of squares Q: mean = S/n, std = sqrt(n*Q - S*S)/n, and on the
\* hundredths grid the epsilon is 1e-4.  So the test is
\*   2*|n*vel - S| - 5*n/10^4 > 5*sqrt(n*Q - S*S),
\* and, both sides squared, 4*A*A - 25*D > 5*n*(40000*A - 5*n)/10^8.
ZScoreExceeds(vel, vs) ==
    LET n == Len(vs)
        S == SeqSum(vs)
        Q == SeqSum([i \in 1 .. n |-> vs[i] * vs[i]])
        D == n * Q - S * S
        A == Abs(n * vel - S)
    IN  /\ A > 0
        /\ 4 * A * A - 25 * D > (5 * n * (40000 * A - 5 * n)) \div 100000000

\* the indices i (from 0) of the flagged entries, ascending
RECURSIVE FlaggedFrom(_, _)
FlaggedFrom(vs, i) ==
    IF i > Len(vs) THEN <<>>
    ELSE IF ZScoreExceeds(vs[i], vs) THEN <<i - 1>> \o FlaggedFrom(vs, i + 1)
         ELSE FlaggedFrom(vs, i + 1)

\* variant: a count of exactly 10% is High already
AnomalySeverityInclusive(count, transitions) ==
    IF 10 * count >= transitions THEN "High"
    ELSE IF count > 0 THEN "Low" ELSE "None"

\* "High" if len(anomaly_frames) > len(velocities) * 0.1 else "Low" if
\* len(anomaly_frames) > 0 else "None"
AnomalySeverity(count, transitions) ==
    IF 10 * count > transitions THEN "High"
    ELSE IF count > 0 THEN "Low" ELSE "None"

\* AnalyticsEngine.detect_anomalies
detect_anomalies(pd) ==
    LET vs == TransitionVelocities(pd)
        fl == FlaggedFrom(vs, 1)
    IN  IF Len(vs) < 10
        THEN [anomaly_frames |-> <<>>, anomaly_count |-> 0, severity |-> "None",
              velocities |-> vs]
        ELSE [anomaly_frames |-> fl,
              anomaly_count  |-> Len(fl),
              severity       |-> AnomalySeverity(Len(fl), Len(vs)),
              velocities     |-> vs]

(************************** compute_movement_quality ***********************)
\* AnalyticsEngine.compute_movement_quality: four fixed numbers (85.5, 78.2,
\* 82.7, 88.1); the loop over the frames computes nothing
compute_movement_quality(pd) ==
    [smoothness |-> Rat(855, 10), consistency |-> Rat(782, 10),
     fluidity |-> Rat(827, 10), control |-> Rat(881, 10)]

(************************** assess_risks ***********************************)
\* the elements of a set of numbers in ascending order
RECURSIVE Ascending(_)
Ascending(S) ==
    IF S = {} THEN <<>>
    ELSE LET lo == CHOOSE x \in S : \A y \in S : x <= y
         IN  <<lo>> \o Ascending(S \ {lo})

\* the positions of the frames that carry landmarks
DetectedPositions(pd) == {j \in 1 .. Len(pd) : ~NoLandmarks(pd[j])}

\* the list of the indices (from 0) of the frames at the positions S, in the
\* order of the frames
FramesWhere(S) == Ascending({i - 1 : i \in S})

\* abs(knee.x - (hip.x + ankle.x) / 2) > 0.15
ValgusFrame(lms, hip, knee, ankle) ==
    /\ HasAll(lms, {hip, knee, ankle})
    /\ Abs(2 * lms[knee].x - (lms[hip].x + lms[ankle].x)) > 30

\* one entry of injury_predictions; description and prevention are fixed
\* texts per entry and are left out
EnginePrediction(part, type, level, confidence, frames) ==
    [body_part |-> part, injury_type |-> type, risk_level |-> level,
     confidence |-> confidence, detected_frames |-> SubSeq(frames, 1, Min2(10, Len(frames)))]

\* the valgus prediction of one knee (lines 654-674)
ValgusPrediction(part, frames, n) ==
    IF 10 * Len(frames) > n
    THEN <<EnginePrediction(part, "Knee Valgus / ACL Risk",
                            IF 5 * Len(frames) > n THEN "High" ELSE "Medium",
                            LET c == RAdd(Rat(6, 10), Rat(Len(frames), n))
                            IN  IF RLess(c, Rat(95, 100)) THEN c ELSE Rat(95, 100),
                            frames)>>
    ELSE <<>>

\* AnalyticsEngine._assess_knee_injury_risk
assess_knee_injury_risk(pd) ==
    LET left(lms)  == ValgusFrame(lms, 23, 25, 27)
        right(lms) == ValgusFrame(lms, 24, 26, 28)
        at(P(_)) == FramesWhere({j \in DetectedPositions(pd) : P(LandmarkDict(pd[j]))})
    IN  ValgusPrediction("Left Knee", at(left), Len(pd))
        \o ValgusPrediction("Right Knee", at(right), Len(pd))

\* AnalyticsEngine._assess_lower_back_risk: forward lean above 0.3
assess_lower_back_risk(pd) ==
    LET lean(lms) ==
            /\ HasAll(lms, {11, 12, 23, 24})
            /\ Abs((lms[11].x + lms[12].x) - (lms[23].x + lms[24].x)) > 60
        frames == FramesWhere({j \in DetectedPositions(pd) : lean(LandmarkDict(pd[j]))})
    IN  IF 100 * Len(frames) > 15 * Len(pd)
        THEN <<EnginePrediction("Lower Back", "Excessive Spinal Flexion / Disc Strain",
                                IF 10 * Len(frames) > 3 * Len(pd) THEN "High" ELSE "Medium",
                                Rat(75, 100), frames)>>
        ELSE <<>>

\* AnalyticsEngine._assess_shoulder_risk: a wrist above its shoulder
assess_shoulder_risk(pd) ==
    LET raised(lms) ==
            /\ HasAll(lms, {11, 12, 15, 16})
            /\ (lms[15].y < lms[11].y \/ lms[16].y < lms[12].y)
        frames == FramesWhere({j \in DetectedPositions(pd) : raised(LandmarkDict(pd[j]))})
    IN  IF 5 * Len(frames) > Len(pd)
        THEN <<EnginePrediction("Shoulders", "Shoulder Impingement Risk", "Medium",
                                Rat(65, 100), frames)>>
        ELSE <<>>

\* one entry of biomechanical_warnings (the recommendations are fixed texts)
Warning(pattern, severity) == [pattern |-> pattern, severity |-> severity]

\* the shoulder height differences of the frames holding both shoulders
RECURSIVE ShoulderDiffs(_)
ShoulderDiffs(dicts) ==
    IF dicts = <<>> THEN <<>>
    ELSE IF HasAll(dicts[1], {11, 12})
         THEN <<Abs(dicts[1][11].y - dicts[1][12].y)>> \o ShoulderDiffs(Tail(dicts))
         ELSE ShoulderDiffs(Tail(dicts))

\* AnalyticsEngine._assess_asymmetry_risk
assess_asymmetry_risk(pd) ==
    LET left_right_diffs == ShoulderDiffs(DetectedDicts(pd))
    IN  IF left_right_diffs = <<>> THEN <<>>
        ELSE LET avg_asymmetry == MeanInt(left_right_diffs)
             IN  IF RLess(RInt(15), avg_asymmetry)
                 THEN <<Warning("Significant left-right asymmetry", "High")>>
                 ELSE IF RLess(RInt(8), avg_asymmetry)
                      THEN <<Warning("Moderate left-right asymmetry", "Medium")>>
                      ELSE <<>>

\* np.sqrt(dx**2 + dy**2) summed over the hips and knees both frames hold
HipKneeVelocity(curr, next) ==
    LET d(id) == IF id \in DOMAIN curr /\ id \in DOMAIN next
                 THEN Sqrt((next[id].x - curr[id].x) * (next[id].x - curr[id].x)
                           + (next[id].y - curr[id].y) * (next[id].y - curr[id].y))
                 ELSE 0
    IN  d(23) + d(24) + d(25) + d(26)

\* the velocities list of _assess_velocity_risks: as in detect_anomalies,
\* only the presence of the "landmarks" key is tested
RECURSIVE HipKneeVelocities(_)
HipKneeVelocities(pd) ==
    IF Len(pd) < 2 THEN <<>>
    ELSE LET rest == HipKneeVelocities(Tail(pd))
         IN  IF AnomalyPairSkipped(pd[1], pd[2]) THEN rest
             ELSE <<HipKneeVelocity(LandmarkDict(pd[1]), LandmarkDict(pd[2]))>> \o rest

\* vel > mean + 3 * std, exactly: with n values of sum S and sum of squares
\* Q, n*vel - S > 3 * sqrt(n*Q - S*S)
IsSpike(vel, vs) ==
    LET n == Len(vs)
        S == SeqSum(vs)
        Q == SeqSum([i \in 1 .. n |-> vs[i] * vs[i]])
        A == n * vel - S
    IN  A > 0 /\ A * A > 9 * (n * Q - S * S)

\* the warning for a velocity list: more than 10 entries and more than 5%
\* of them spikes (lines 817-830)
SpikeWarning(velocities) ==
    IF /\ Len(velocities) > 10
       /\ 100 * Cardinality({i \in 1 .. Len(velocities) : IsSpike(velocities[i], velocities)})
             > 5 * Len(velocities)
    THEN <<Warning("Sudden deceleration/acceleration spikes", "Medium")>>
    ELSE <<>>

\* AnalyticsEngine._assess_velocity_risks
assess_velocity_risks(pd) == SpikeWarning(HipKneeVelocities(pd))

\* risk_score_total: 30 for each High prediction, 15 for each Medium, 5 else
RECURSIVE RiskScoreTotal(_)
RiskScoreTotal(ps) ==
    IF ps = <<>> THEN 0
    ELSE (IF ps[1].risk_level = "High" THEN 30
          ELSE IF ps[1].risk_level = "Medium" THEN 15 ELSE 5)
         + RiskScoreTotal(Tail(ps))

\* the dictionary assess_risks returns for its predictions and warnings
RiskReport(injury_predictions, biomechanical_warnings, avg_risk_score) ==
    [injury_predictions     |-> injury_predictions,
     biomechanical_warnings |-> biomechanical_warnings,
     injury_risk_level      |-> IF RLeq(RInt(25), avg_risk_score) THEN "High"
                                ELSE IF RLeq(RInt(12), avg_risk_score) THEN "Medium"
                                     ELSE "Low",
     overall_risk_score     |-> IF RLess(avg_risk_score, RInt(100))
                                THEN avg_risk_score ELSE RInt(100),
     areas_of_concern       |->
        {injury_predictions[i].body_part :
            i \in {j \in DOMAIN injury_predictions :
                      injury_predictions[j].risk_level \in {"High", "Medium"}}},
     risk_factors           |->
        [i \in DOMAIN biomechanical_warnings |->
            [factor   |-> biomechanical_warnings[i].pattern,
             severity |-> biomechanical_warnings[i].severity]]]

\* the report with the average of the risk scores, 0 without predictions
ScoredRiskReport(injury_predictions, biomechanical_warnings) ==
    RiskReport(injury_predictions, biomechanical_warnings,
               IF injury_predictions # <<>>
               THEN Rat(RiskScoreTotal(injury_predictions), Len(injury_predictions))
               ELSE RInt(0))

\* AnalyticsEngine.assess_risks: computed from the frames' landmarks
assess_risks(pd) ==
    ScoredRiskReport(assess_knee_injury_risk(pd) \o assess_lower_back_risk(pd)
                        \o assess_shoulder_risk(pd),
                     assess_asymmetry_risk(pd) \o assess_velocity_risks(pd))

(************************** generate_comprehensive_summary *****************)
\* variant: a boundary value falls in the lower grade
SummaryGradeStrict(overall_score) ==
    IF RLess(RInt(90), overall_score) THEN "A"
    ELSE IF RLess(RInt(80), overall_score) THEN "B"
    ELSE IF RLess(RInt(70), overall_score) THEN "C"
    ELSE IF RLess(RInt(60), overall_score) THEN "D" ELSE "F"

\* the grade of the summary (lines 845-854)
SummaryGrade(overall_score) ==
    IF ~RLess(overall_score, RInt(90)) THEN "A"
    ELSE IF ~RLess(overall_score, RInt(80)) THEN "B"
    ELSE IF ~RLess(overall_score, RInt(70)) THEN "C"
    ELSE IF ~RLess(overall_score, RInt(60)) THEN "D" ELSE "F"

\* AnalyticsEngine.generate_comprehensive_summary.  insights,
\* recommendations and key_findings are texts chosen by the same three
\* scores and are left out.
generate_comprehensive_summary(a, pd) ==
    LET posture_score    == a.posture_metrics.overall_posture_score
        symmetry_score   == a.symmetry_analysis.overall_score
        movement_quality == a.movement_quality.smoothness
        total            == RAdd(RAdd(posture_score, symmetry_score), movement_quality)
        overall_score    == Rat(total[1], 3 * total[2])
        side(score, good, bad) == IF ~RLess(score, RInt(80)) THEN <<good, "">> ELSE <<"", bad>>
        marks == << side(posture_score, "Posture alignment", "Posture stability"),
                    side(symmetry_score, "Body symmetry", "Left-right balance"),
                    side(movement_quality, "Movement smoothness", "Movement control") >>
    IN  [overall_score    |-> overall_score,
         grade            |-> SummaryGrade(overall_score),
         strengths        |-> SelectSeq(<<marks[1][1], marks[2][1], marks[3][1]>>,
                                        LAMBDA t : t # ""),
         weaknesses       |-> SelectSeq(<<marks[1][2], marks[2][2], marks[3][2]>>,
                                        LAMBDA t : t # ""),
         total_frames     |-> Len(pd),
         duration_seconds |-> Rat(Len(pd), 30)]

(************************** compute_analytics ******************************)
\* the dictionary compute_analytics has built when the summary generator is
\* called: the summary entry is still the empty dictionary (lines 38-60)
AnalyticsBeforeSummary(a) == [a EXCEPT !.summary = <<>>]

\* AnalyticsEngine.compute_analytics: the report, or the exception of the
\* stage that raised.  `velocities` (a local of detect_anomalies) is kept in
\* the anomalies entry so that the signal can be inspected.  The entries with
\* fixed contents that nothing reads (overall_score, temporal_analysis,
\* stability_metrics, efficiency_metrics) and body_region_analysis are left
\* out.
compute_analytics(pd) ==
    LET ja == compute_joint_angles(pd)
        a  == [raised            |-> FALSE,
               movement_quality  |-> compute_movement_quality(pd),
               joint_angles      |-> ja.angles,
               posture_metrics   |-> compute_posture_metrics(pd),
               motion_metrics    |-> compute_motion_metrics(pd),
               symmetry_analysis |-> compute_symmetry_analysis(pd),
               anomalies         |-> detect_anomalies(pd),
               risk_assessment   |-> assess_risks(pd),
               summary           |-> <<>>]
    IN  IF ja.raised THEN [raised |-> TRUE]
        ELSE [a EXCEPT !.summary = generate_comprehensive_summary(a, pd)]

(************************** InjuryPredictor ********************************)
\* one prediction; description and prevention_tips are fixed texts per
\* assessor and are left out
Prediction(type, part, score, severity, confidence, signs) ==
    [injury_type |-> type, body_part |-> part, risk_score |-> score,
     severity |-> severity, confidence |-> confidence, warning_signs |-> signs]

\* the severity expression of the knee and back assessors (lines 178, 225)
Severity3(risk_score) ==
    IF risk_score >= 60 THEN "High"
    ELSE IF risk_score >= 40 THEN "Moderate" ELSE "Low"

\* the severity expression of the shoulder, hip and ankle assessors
\* (lines 265, 305, 344)
Severity2(risk_score) == IF risk_score >= 40 THEN "Moderate" ELSE "Low"

\* variant: the largest present angle instead of the smallest
KneeMaxAngle(angles) ==
    LET p == Present(angles) IN IF p = <<>> THEN 180 ELSE SeqMax(p)

\* min([a for a in angles if a is not None], default=180)
KneeMinAngle(angles) ==
    LET p == Present(angles) IN IF p = <<>> THEN 180 ELSE SeqMin(p)

\* the penalty of one knee series (lines 150-157)
KneeValgus(angles) ==
    IF angles = <<>> THEN <<0, <<>> >>
    ELSE LET min_angle == KneeMinAngle(angles)
         IN  IF min_angle < 160
             THEN <<35, <<"Severe knee valgus (inward collapse) detected">> >>
             ELSE IF min_angle < 170
                  THEN <<20, <<"Moderate knee valgus observed">> >>
                  ELSE <<0, <<>> >>

\* InjuryPredictor._analyze_knee_risk
analyze_knee_risk(joint_angles, symmetry, motion) ==
    LET l   == KneeValgus(GetOr(joint_angles, "left_knee", <<>>))
        r   == KneeValgus(GetOr(joint_angles, "right_knee", <<>>))
        ks  == GetOr(GetOr(symmetry, "by_body_part", <<>>), "knees", RInt(100))
        sym == IF RLess(ks, RInt(70))
               THEN <<25, <<"Significant left-right knee asymmetry">> >>
               ELSE IF RLess(ks, RInt(85))
                    THEN <<10, <<"Mild knee asymmetry">> >>
                    ELSE <<0, <<>> >>
        vel == IF RLess(RInt(40), GetOr(motion, "max_velocity", RInt(0)))
               THEN <<15, <<"Rapid acceleration/deceleration detected">> >>
               ELSE <<0, <<>> >>
        risk_score == l[1] + r[1] + sym[1] + vel[1]
    IN  Prediction("ACL Tear / Knee Injury", "Knee", Min2(risk_score, 100),
                   Severity3(risk_score), 88, l[2] \o r[2] \o sym[2] \o vel[2])

\* InjuryPredictor._analyze_back_risk.  np.mean of an empty list is nan, and
\* every comparison with nan is false: a series without a present entry
\* adds no penalty.
analyze_back_risk(joint_angles, posture) ==
    LET spine_angles == GetOr(joint_angles, "spine", <<>>)
        p   == Present(spine_angles)
        sp  == IF spine_angles = <<>> \/ p = <<>> THEN <<0, <<>> >>
               ELSE IF RLess(MeanInt(p), RInt(150))
                    THEN <<30, <<"Excessive spinal flexion detected">> >>
                    ELSE IF RLess(MeanInt(p), RInt(165))
                         THEN <<15, <<"Moderate forward lean observed">> >>
                         ELSE <<0, <<>> >>
        ps  == GetOr(posture, "overall_posture_score", RInt(100))
        po  == IF RLess(ps, RInt(60))
               THEN <<35, <<"Poor overall posture alignment">> >>
               ELSE IF RLess(ps, RInt(75))
                    THEN <<20, <<"Suboptimal posture detected">> >>
                    ELSE <<0, <<>> >>
        al  == IF RLess(GetOr(posture, "spine_alignment_score", RInt(100)), RInt(70))
               THEN <<25, <<"Spine misalignment detected">> >>
               ELSE <<0, <<>> >>
        risk_score == sp[1] + po[1] + al[1]
    IN  Prediction("Lower Back Strain / Disc Injury", "Spine / Lower Back",
                   Min2(risk_score, 100), Severity3(risk_score), 92,
                   sp[2] \o po[2] \o al[2])

\* the penalty of one shoulder series (lines 249-253)
ShoulderExtreme(side, angles) ==
    IF angles = <<>> THEN <<0, <<>> >>
    ELSE LET p == Present(angles)
             max_angle == IF p = <<>> THEN 0 ELSE SeqMax(p)
         IN  IF max_angle > 170
             THEN <<20, <<"Extreme " \o side \o " shoulder extension detected">> >>
             ELSE <<0, <<>> >>

\* InjuryPredictor._analyze_shoulder_risk
analyze_shoulder_risk(joint_angles, symmetry) ==
    LET l   == ShoulderExtreme("left", GetOr(joint_angles, "left_shoulder", <<>>))
        r   == ShoulderExtreme("right", GetOr(joint_angles, "right_shoulder", <<>>))
        sym == IF RLess(GetOr(GetOr(symmetry, "by_body_part", <<>>), "shoulders", RInt(100)),
                        RInt(75))
               THEN <<25, <<"Shoulder imbalance detected">> >>
               ELSE <<0, <<>> >>
        risk_score == l[1] + r[1] + sym[1]
    IN  Prediction("Rotator Cuff Strain / Shoulder Impingement", "Shoulder",
                   Min2(risk_score, 100), Severity2(risk_score), 85,
                   l[2] \o r[2] \o sym[2])

\* the penalty of one hip series (lines 287-293)
HipRange(side, angles) ==
    LET p == Present(angles)
    IN  IF angles = <<>> \/ p = <<>> THEN <<0, <<>> >>
        ELSE IF SeqMax(p) - SeqMin(p) > 80
             THEN <<15, <<"Excessive " \o side \o " hip range of motion">> >>
             ELSE <<0, <<>> >>

\* InjuryPredictor._analyze_hip_risk
analyze_hip_risk(joint_angles, symmetry, motion) ==
    LET l   == HipRange("left", GetOr(joint_angles, "left_hip", <<>>))
        r   == HipRange("right", GetOr(joint_angles, "right_hip", <<>>))
        sym == IF RLess(GetOr(GetOr(symmetry, "by_body_part", <<>>), "hips", RInt(100)),
                        RInt(80))
               THEN <<20, <<"Hip asymmetry detected">> >>
               ELSE <<0, <<>> >>
        risk_score == l[1] + r[1] + sym[1]
    IN  Prediction("Hip Flexor Strain / FAI", "Hip", Min2(risk_score, 100),
                   Severity2(risk_score), 82, l[2] \o r[2] \o sym[2])

\* InjuryPredictor._analyze_ankle_risk (range of motion in hundredths:
\* 0.05 is 5)
analyze_ankle_risk(motion, anomalies) ==
    LET anomaly_count == GetOr(anomalies, "anomaly_count", 0)
        an  == IF anomaly_count > 20
               THEN <<30, <<"Frequent unstable movements detected">> >>
               ELSE IF anomaly_count > 10
                    THEN <<15, <<"Some movement instability observed">> >>
                    ELSE <<0, <<>> >>
        ankle_rom == GetOr(motion, "range_of_motion", <<>>)
        rom == IF Abs(GetOr(ankle_rom, 27, 0) - GetOr(ankle_rom, 28, 0)) > 5
               THEN <<15, <<"Ankle mobility asymmetry">> >>
               ELSE <<0, <<>> >>
        risk_score == an[1] + rom[1]
    IN  Prediction("Ankle Sprain / Instability", "Ankle", Min2(risk_score, 100),
                   Severity2(risk_score), 78, an[2] \o rom[2])

\* the five assessments in the order predict_injury_risks runs them
Assessments(a) ==
    LET joint_angles == GetOr(a, "joint_angles", <<>>)
        symmetry     == GetOr(a, "symmetry_analysis", <<>>)
        posture      == GetOr(a, "posture_metrics", <<>>)
        motion       == GetOr(a, "motion_metrics", <<>>)
        anomalies    == GetOr(a, "anomalies", <<>>)
    IN  << analyze_knee_risk(joint_angles, symmetry, motion),
           analyze_back_risk(joint_angles, posture),
           analyze_shoulder_risk(joint_angles, symmetry),
           analyze_hip_risk(joint_angles, symmetry, motion),
           analyze_ankle_risk(motion, anomalies) >>

\* variant: a score of exactly 30 is relevant too
ClearsThresholdInclusive(p) == p.risk_score >= 30

\* `x["risk_score"] > 30` (lines 74, 79, 84, 89, 94)
ClearsThreshold(p) == p.risk_score > 30

\* `if x["risk_score"] > 30: predictions.append(x)`, five times
RECURSIVE Relevant(_)
Relevant(ps) ==
    IF ps = <<>> THEN <<>>
    ELSE IF ClearsThreshold(ps[1]) THEN <<ps[1]>> \o Relevant(Tail(ps))
         ELSE Relevant(Tail(ps))

\* insert p into a list sorted by non-increasing score, after its equals
RECURSIVE InsertByScore(_, _)
InsertByScore(p, sorted) ==
    IF sorted = <<>> THEN <<p>>
    ELSE IF sorted[1].risk_score >= p.risk_score
         THEN <<sorted[1]>> \o InsertByScore(p, Tail(sorted))
         ELSE <<p>> \o sorted

\* predictions.sort(key=lambda x: x["risk_score"], reverse=True): stable
RECURSIVE SortByScore(_)
SortByScore(ps) ==
    IF ps = <<>> THEN <<>>
    ELSE InsertByScore(ps[Len(ps)], SortByScore(SubSeq(ps, 1, Len(ps) - 1)))

Placeholder ==
    Prediction("No Significant Risks Detected", "Overall", 10, "Low", 85, <<>>)

\* (the source text starts with a warning sign emoji)
UrgentMessage ==
    "URGENT: Consult a healthcare professional before continuing high-intensity activities"

KneeAdvice == "Implement neuromuscular training for knee stability"

SpineAdvice == "Focus on core strengthening and spine mobility exercises"

ShoulderAdvice == "Address shoulder imbalances with targeted rotator cuff work"

GeneralAdvice ==
    <<"Work with a qualified movement specialist or physical therapist",
      "Gradually increase training intensity (10% rule)",
      "Ensure adequate rest and recovery between sessions",
      "Address movement compensations before they become habits">>

\* the first n items of a list: xs[:n]
Take(xs, n) == SubSeq(xs, 1, Min2(n, Len(xs)))

\* `"Spine" in body_parts or "Lower Back" in body_parts`: membership of the
\* whole string in the set of body_part strings
SpineNamed(body_parts) == "Spine" \in body_parts \/ "Lower Back" \in body_parts

\* the list before the cap: warnings, body-part advice, general advice
\* (lines 369-391, in the order of the appends)
AssembleRecommendations(high, parts, general) == high \o parts \o general

\* variant: the list is returned whole
UncappedRecommendations(recommendations) == recommendations

\* recommendations[:6]
CapRecommendations(recommendations) == Take(recommendations, 6)

\* InjuryPredictor._generate_recommendations
generate_recommendations(predictions) ==
    IF predictions = <<>>
       \/ predictions[1].injury_type = "No Significant Risks Detected"
    THEN <<"Continue current movement patterns",
           "Maintain regular strength and flexibility training",
           "Monitor for any changes in form or discomfort">>
    ELSE LET high == IF \E i \in 1 .. Len(predictions) : predictions[i].risk_score >= 60
                     THEN <<UrgentMessage,
                            "Consider temporary activity modification until risk factors are addressed">>
                     ELSE <<>>
             top  == Take(predictions, 3)
             body_parts == {top[i].body_part : i \in 1 .. Len(top)}
             knee == IF "Knee" \in body_parts THEN <<KneeAdvice>> ELSE <<>>
             back == IF SpineNamed(body_parts) THEN <<SpineAdvice>> ELSE <<>>
             shou == IF "Shoulder" \in body_parts THEN <<ShoulderAdvice>> ELSE <<>>
         IN  CapRecommendations(
                 AssembleRecommendations(high, knee \o back \o shou, GeneralAdvice))

\* InjuryPredictor._calculate_confidence
calculate_confidence(a) ==
    LET total_frames == GetOr(GetOr(a, "summary", <<>>), "total_frames", 0)
        base == IF total_frames > 200 THEN 90
                ELSE IF total_frames > 100 THEN 85
                     ELSE IF total_frames > 50 THEN 80 ELSE 75
        sym  == IF RLess(RInt(0), GetOr(GetOr(a, "symmetry_analysis", <<>>),
                                         "overall_score", RInt(0)))
                THEN 5 ELSE 0
    IN  Min2(base + sym, 95)

\* variant: High only above 70
OverallLevelStrict(max_risk) ==
    IF max_risk > 70 THEN <<"High", "danger">>
    ELSE IF max_risk >= 50 THEN <<"Moderate", "warning">>
         ELSE <<"Low", "caution">>

\* the overall level of a non-empty sorted list (lines 102-111)
OverallLevel(max_risk) ==
    IF max_risk >= 70 THEN <<"High", "danger">>
    ELSE IF max_risk >= 50 THEN <<"Moderate", "warning">>
         ELSE <<"Low", "caution">>

\* InjuryPredictor.predict_injury_risks
predict_injury_risks(a) ==
    LET sorted == SortByScore(Relevant(Assessments(a)))
        level  == IF sorted # <<>> THEN OverallLevel(sorted[1].risk_score)
                  ELSE <<"Minimal", "safe">>
        predictions == IF sorted # <<>> THEN sorted ELSE <<Placeholder>>
    IN  [overall_risk_level   |-> level[1],
         overall_color        |-> level[2],
         predictions          |-> Take(predictions, 5),
         total_risks_detected |-> Len(predictions),
         recommendations      |-> generate_recommendations(predictions),
         ai_confidence        |-> calculate_confidence(a)]

(************************** the frame stages *******************************)
\* What the landmark model reports for one video frame: nothing, or a pose
\* with the landmarks in `low` at low visibility (0.30 instead of 0.90).
Detection(pose, low) == [pose |-> pose, low |-> low]

\* variant: a frame without a pose is left out
process_frames_detected_only(frames) ==
    LET RECURSIVE Go(_)
        Go(i) == IF i > Len(frames) THEN <<>>
                 ELSE IF frames[i] = None THEN Go(i + 1)
                 ELSE <<[frame_index |-> i - 1, pose_detected |-> TRUE, landmarks |-> <<>>]>>
                      \o Go(i + 1)
    IN  Go(1)

\* PoseEstimator.process_frames: one dictionary per frame, with the 33
\* landmarks when a pose was found
process_frames(frames) ==
    [i \in 1 .. Len(frames) |->
        IF frames[i] = None
        THEN [frame_index |-> i - 1, pose_detected |-> FALSE, landmarks |-> <<>>]
        ELSE [frame_index |-> i - 1, pose_detected |-> TRUE,
              landmarks |->
                [k \in 1 .. 33 |->
                    LET lm == PoseNamed(Val(frames[i]).pose)[k - 1]
                    IN  [id |-> k - 1, x |-> lm.x, y |-> lm.y, z |-> lm.z,
                         visibility |-> IF (k - 1) \in Val(frames[i]).low THEN 30 ELSE 90]]]]

\* PoseEstimator.filter_low_confidence (min_visibility 0.5): a landmark below
\* the threshold stays in place with "valid": False added
filter_low_confidence(pd) ==
    [i \in 1 .. Len(pd) |->
        [pd[i] EXCEPT !.landmarks =
            [k \in 1 .. Len(pd[i].landmarks) |->
                LET lm == pd[i].landmarks[k]
                IN  IF lm.visibility >= 50 THEN lm
                    ELSE [f \in DOMAIN lm \cup {"valid"} |->
                            IF f = "valid" THEN FALSE ELSE lm[f]]]]]

\* the value of the Savitzky-Golay filter (window 5, order 3, mode interp) at
\* position i of xs: the cubic fitted to the window around i (the first five
\* values for the first two positions, the last five for the last two),
\* which is w[k] - q[k] * (q . w) / 70 with q = (1, -4, 6, -4, 1)
Savgol(xs, i) ==
    LET n     == Len(xs)
        first == IF i <= 2 THEN 1 ELSE IF i >= n - 1 THEN n - 4 ELSE i - 2
        k     == i - first + 1
        q     == <<1, -4, 6, -4, 1>>
        t(j)  == Rat(q[j] * xs[first + j - 1][1], xs[first + j - 1][2])
        qw    == RAdd(RAdd(RAdd(RAdd(t(1), t(2)), t(3)), t(4)), t(5))
    IN  RAdd(xs[i], Rat(0 - q[k] * qw[1], 70 * qw[2]))

\* the coordinate c of landmark id in frame f as apply_temporal_smoothing
\* puts it into its arrays: zero for a frame without landmarks
ArrayEntry(f, id, c) ==
    IF f.pose_detected /\ f.landmarks # <<>> THEN f.landmarks[id + 1][c]
    ELSE IF c = "visibility" THEN 0 ELSE RInt(0)

\* PoseReconstructor.apply_temporal_smoothing (window_length 5)
apply_temporal_smoothing(pd) ==
    IF Len(pd) < 5 THEN pd
    ELSE [i \in 1 .. Len(pd) |->
            [frame_index   |-> pd[i].frame_index,
             pose_detected |-> pd[i].pose_detected,
             landmarks     |->
                IF pd[i].pose_detected /\ pd[i].landmarks # <<>>
                THEN [k \in 1 .. 33 |->
                        [c \in {"id", "x", "y", "z", "visibility"} |->
                            IF c = "id" THEN k - 1
                            ELSE IF c = "visibility" THEN ArrayEntry(pd[i], k - 1, c)
                            ELSE Savgol([j \in 1 .. Len(pd) |-> ArrayEntry(pd[j], k - 1, c)], i)]]
                ELSE <<>>]]

\* the first loop of reconstruct_3d: the coordinates times scale_factor
\* (100), i.e. hundredths read as units, kept as rationals from here on
ScaledFrames(pd) ==
    [i \in 1 .. Len(pd) |->
        [frame_index   |-> pd[i].frame_index,
         pose_detected |-> pd[i].pose_detected,
         landmarks     |->
            IF pd[i].pose_detected /\ pd[i].landmarks # <<>>
            THEN [k \in 1 .. Len(pd[i].landmarks) |->
                    [c \in {"id", "x", "y", "z", "visibility"} |->
                        IF c \in {"x", "y", "z"} THEN RInt(pd[i].landmarks[k][c])
                        ELSE pd[i].landmarks[k][c]]]
            ELSE <<>>]]

\* PoseReconstructor.reconstruct_3d
reconstruct_3d(pd) == apply_temporal_smoothing(ScaledFrames(pd))

(************************** inputs *****************************************)
\* all sequences over S of length 0 .. n
SeqsUpTo(S, n) == UNION {[1 .. k -> S] : k \in 0 .. n}

\* the landmark ids the joint angles read
AngleIds == {0, 11, 12, 13, 14, 15, 16, 23, 24, 25, 26, 27, 28}

FrameAlphabet ==
    {NoKeyFrame, UndetectedFrame,
     FrameOf("neutral", {}), FrameOf("bent", {}), FrameOf("tilted", {}),
     FrameOf("offframe", {}),
     FrameOf("neutral", {12}), FrameOf("bent", {25, 26})}

LongAlphabet == {NoKeyFrame, UndetectedFrame, FrameOf("bent", {}), FrameOf("neutral", {})}

\* n neutral frames, with frame i replaced by f and frame j by g
LongSequence(n, i, f, j, g) ==
    [k \in 1 .. n |-> IF k = j THEN g ELSE IF k = i THEN f ELSE FrameOf("neutral", {})]

\* The sequences the pipeline is run on: every short sequence over the frame
\* alphabet, every single frame holding any subset of the landmarks the
\* joint angles read, and long sequences that reach the 10-transition
\* minimum of detect_anomalies, with up to two odd frames at most two apart,
\* longer sequences with a single odd frame or with a frame without the
\* "landmarks" key followed by an odd frame, and short sequences of frames
\* with the arms down or raised.
PoseInputs ==
    SeqsUpTo(FrameAlphabet, MaxFrames)
    \cup SeqsUpTo({FrameOf("neutral", {}), FrameOf("armsup", {})}, MaxFrames)
    \cup {<<FrameOf("neutral", AngleIds \ present)>> : present \in SUBSET AngleIds}
    \cup {LongSequence(n, ij[1], f, ij[2], g) :
            n \in {MaxLongFrames},
            ij \in {p \in (1 .. MaxLongFrames) \X (1 .. MaxLongFrames) :
                       p[1] <= p[2] /\ p[2] <= p[1] + 2},
            f \in LongAlphabet, g \in LongAlphabet}
    \cup {LongSequence(MaxSpikeFrames, i, f, i, f) :
            i \in 1 .. MaxSpikeFrames, f \in LongAlphabet}
    \cup {LongSequence(MaxSpikeFrames, i, NoKeyFrame, i + 1, g) :
            i \in 1 .. MaxSpikeFrames - 1, g \in LongAlphabet}

Series(vals) == SeqsUpTo({None} \cup {Some(v) : v \in vals}, MaxSeries)

\* one low knee angle followed by k - 1 neutral ones
OneLowIn(k) == [i \in 1 .. k |-> IF i = 1 THEN Some(150) ELSE Some(175)]

KneeSeries ==
    Series({150, 175}) \cup {<<Some(165)>>} \cup {OneLowIn(k) : k \in {6, 10, 11}}

\* A dictionary with the keys predict_injury_risks reads (it reads every
\* key with .get and a default); the series an assessor does not read are
\* left out.
MkAnalytics(lk, rk, sp, ls, rs, lh, rh, symK, symS, symH, post, align, maxvel, romL, romR, anom, frames) ==
    LET by_part == [lab \in PairLabels |->
                      CASE lab = "knees" -> RInt(symK)
                        [] lab = "shoulders" -> RInt(symS)
                        [] lab = "hips" -> RInt(symH)
                        [] OTHER -> RInt(100)]
    IN  [raised |-> FALSE,
         joint_angles |->
            [left_knee |-> lk, right_knee |-> rk, spine |-> sp,
             left_shoulder |-> ls, right_shoulder |-> rs,
             left_hip |-> lh, right_hip |-> rh],
         posture_metrics |->
            [spine_alignment_score |-> RInt(align), overall_posture_score |-> RInt(post)],
         motion_metrics |->
            [max_velocity |-> RInt(maxvel),
             range_of_motion |-> [id \in {27, 28} |-> IF id = 27 THEN romL ELSE romR]],
         symmetry_analysis |->
            [overall_score |-> MeanRat([i \in 1 .. Len(SymmetricPairs) |->
                                           by_part[SymmetricPairs[i][3]]]),
             by_body_part |-> by_part],
         anomalies |-> [anomaly_count |-> anom],
         summary |-> [total_frames |-> frames]]

Straight == <<Some(175)>>

\* the series of the opposite side while one side is swept
OtherSide ==
    {<<>>, <<None>>, Straight, <<Some(150)>>, <<Some(165)>>, <<Some(90), Some(175)>>}

KneeSweep ==
    {MkAnalytics(lk, rk, Straight, <<>>, <<>>, <<>>, <<>>, symK, 100, 100, 100, 100,
                 maxvel, 0, 0, 0, 30) :
        lk \in KneeSeries, rk \in OtherSide, symK \in {60, 80, 100}, maxvel \in {0, 50}}

BackSweep ==
    {MkAnalytics(Straight, Straight, sp, <<>>, <<>>, <<>>, <<>>, 100, 100, 100, post, align,
                 0, 0, 0, 0, 30) :
        sp \in Series({140, 160, 175}), post \in {50, 70, 90}, align \in {60, 90}}

ShoulderSweep ==
    {MkAnalytics(Straight, Straight, Straight, ls, rs, <<>>, <<>>, 100, symS, 100, 100, 100,
                 0, 0, 0, 0, 30) :
        ls \in Series({165, 175}), rs \in OtherSide, symS \in {70, 90}}

HipSweep ==
    {MkAnalytics(Straight, Straight, Straight, <<>>, <<>>, lh, rh, 100, 100, symH, 100, 100,
                 0, 0, 0, 0, 30) :
        lh \in Series({90, 175}), rh \in OtherSide, symH \in {70, 90}}

AnkleSweep ==
    {MkAnalytics(Straight, Straight, Straight, <<>>, <<>>, <<>>, <<>>, 100, 100, 100, 100, 100,
                 0, romL, romR, anom, 30) :
        romL \in {0, 10}, romR \in {0, 10}, anom \in {0, 11, 21}}

\* combinations of the assessors' scores: knee 0/30/35/100, back 0/30/60/90,
\* shoulder 0/40/65, hip 0/30/50, ankle 0/30/45
MixedInputs ==
    {MkAnalytics(kn[1], kn[2], bk[1], sh[1], sh[2], hp[1], hp[2],
                 kn[3], sh[3], hp[3], bk[2], bk[3], kn[4], an[1], 0, an[2], frames) :
        kn \in { <<Straight, Straight, 100, 0>>, <<<<Some(165)>>, Straight, 80, 0>>,
                 <<<<Some(150)>>, Straight, 100, 0>>, <<<<Some(150)>>, <<Some(150)>>, 60, 50>> },
        bk \in { <<Straight, 100, 100>>, <<<<Some(140)>>, 100, 100>>,
                 <<Straight, 50, 60>>, <<<<Some(140)>>, 50, 60>> },
        sh \in { <<<<>>, <<>>, 100>>, <<Straight, Straight, 100>>, <<Straight, Straight, 70>> },
        hp \in { <<<<>>, <<>>, 100>>, <<<<Some(90), Some(175)>>, <<Some(90), Some(175)>>, 100>>,
                 <<<<Some(90), Some(175)>>, <<Some(90), Some(175)>>, 70>> },
        an \in { <<0, 0>>, <<0, 21>>, <<10, 21>> },
        frames \in {30, 201} }

\* the dictionaries predict_injury_risks is applied to
AnalyticsInputs ==
    KneeSweep \cup BackSweep \cup ShoulderSweep \cup HipSweep \cup AnkleSweep \cup MixedInputs

(************************** the state machine ******************************)
\* no request is being served and the upload directory is empty
NoServer == uploads = {} /\ req = None

\* no function is being applied on its own
NoCall == args = None /\ result = None


\* The pipeline: compute_analytics on a sequence, then predict_injury_risks
\* on its report.
Init ==
    /\ pose_data \in PoseInputs
    /\ analytics = None
    /\ risk = None
    /\ engine = NewAnalyticsEngine
    /\ NoServer
    /\ NoCall
    /\ pc = "start"

ComputeAnalytics ==
    /\ pc = "start"
    /\ analytics' = compute_analytics(pose_data)
    /\ pc' = IF analytics'.raised THEN "raised" ELSE "analysed"
    /\ engine' = SelfAfterRun(engine)
    /\ UNCHANGED <<pose_data, risk, uploads, req, args, result>>

PredictInjuryRisks ==
    /\ pc = "analysed"
    /\ risk' = predict_injury_risks(analytics)
    /\ pc' = "predicted"
    /\ UNCHANGED <<pose_data, analytics, engine, uploads, req, args, result>>

Next == ComputeAnalytics \/ PredictInjuryRisks

Spec == Init /\ [][Next]_vars

\* calculate_angle on its own, applied to three points and to the same
\* points with the outer two swapped.
AnglePoints == {Pt(x, y, z) : x \in {30, 44, 58}, y \in {30, 44}, z \in {0, 14}}

InitAngle ==
    /\ pose_data = <<>>
    /\ analytics = None
    /\ risk = None
    /\ engine = NewAnalyticsEngine
    /\ NoServer
    /\ args \in AnglePoints \X AnglePoints \X AnglePoints
    /\ result = None
    /\ pc = "call"

CalculateAngle ==
    /\ pc = "call"
    /\ result' = [angle   |-> calculate_angle(args[1], args[2], args[3]),
                  swapped |-> calculate_angle(args[3], args[2], args[1])]
    /\ pc' = "returned"
    /\ UNCHANGED <<pose_data, analytics, risk, engine, uploads, req, args>>

NextAngle == CalculateAngle

SpecAngle == InitAngle /\ [][NextAngle]_vars

\* The frame stages applied one after the other to what the landmark model
\* reports for the frames of a video.
StageInputs ==
    SeqsUpTo({None, Some(Detection("neutral", {})), Some(Detection("bent", {15}))}, 4)
    \cup SeqsUpTo({None, Some(Detection("bent", {15}))}, MaxStageFrames)

InitStages ==
    /\ pose_data = <<>>
    /\ analytics = None
    /\ risk = None
    /\ engine = NewAnalyticsEngine
    /\ NoServer
    /\ args \in StageInputs
    /\ result = None
    /\ pc = "frames"

\* one stage: at `from`, store `out` and move to `to`
Stage(from, out, to) ==
    /\ pc = from
    /\ result' = out
    /\ pc' = to
    /\ UNCHANGED <<pose_data, analytics, risk, engine, uploads, req, args>>

ProcessFrames == Stage("frames", process_frames(args), "estimated")

FilterLowConfidence == Stage("estimated", filter_low_confidence(result), "filtered")

Reconstruct3D == Stage("filtered", reconstruct_3d(result), "reconstructed")

ApplyTemporalSmoothing == Stage("reconstructed", apply_temporal_smoothing(result), "smoothed")

NextStages == ProcessFrames \/ FilterLowConfidence \/ Reconstruct3D \/ ApplyTemporalSmoothing

SpecStages == InitStages /\ [][NextStages]_vars

\* The pipeline run a second time on the same sequence, with the same
\* engine object.
TwiceInputs ==
    SeqsUpTo(FrameAlphabet, 2)
    \cup {LongSequence(MaxSpikeFrames, i, f, i, f) : i \in 1 .. MaxSpikeFrames, f \in LongAlphabet}

InitTwice ==
    /\ pose_data \in TwiceInputs
    /\ analytics = None
    /\ risk = None
    /\ engine = NewAnalyticsEngine
    /\ NoServer
    /\ NoCall
    /\ pc = "start"

RunAgain ==
    /\ pc = "predicted"
    /\ analytics' = compute_analytics(pose_data)
    /\ risk' = predict_injury_risks(analytics')
    /\ engine' = SelfAfterRun(engine)
    /\ pc' = "rerun"
    /\ UNCHANGED <<pose_data, uploads, req, args, result>>

NextTwice == ComputeAnalytics \/ PredictInjuryRisks \/ RunAgain

SpecTwice == InitTwice /\ [][NextTwice]_vars

\* The predictor alone, applied to analytics dictionaries drawn directly.
InitRisk ==
    /\ pose_data = <<>>
    /\ analytics \in AnalyticsInputs
    /\ risk = None
    /\ engine = NewAnalyticsEngine
    /\ NoServer
    /\ NoCall
    /\ pc = "analysed"

\* The predictor called where the data flow places the risk assessment: on
\* the dictionary of compute_analytics before the summary is filled in.
PredictBeforeSummary ==
    /\ pc = "analysed"
    /\ risk' = predict_injury_risks(AnalyticsBeforeSummary(analytics))
    /\ pc' = "predicted_early"
    /\ UNCHANGED <<pose_data, analytics, engine, uploads, req, args, result>>

NextRisk == PredictInjuryRisks \/ PredictBeforeSummary

SpecRisk == InitRisk /\ [][NextRisk]_vars

\* The summary generator alone, applied to dictionaries whose posture and
\* symmetry scores are drawn directly, in halves of a point.
SummaryInputs ==
    {[raised            |-> FALSE,
      movement_quality  |-> compute_movement_quality(<<>>),
      posture_metrics   |-> [overall_posture_score |-> Rat(p2, 2)],
      symmetry_analysis |-> [overall_score |-> Rat(s2, 2)],
      summary           |-> <<>>] :
        p2 \in {0, 20, 88, 89, 108, 109, 139, 140, 148, 149, 168, 169, 199, 200},
        s2 \in {0, 100, 169, 200}}

InitSummary ==
    /\ pose_data \in SeqsUpTo({FrameOf("neutral", {})}, MaxFrames)
    /\ analytics \in SummaryInputs
    /\ risk = None
    /\ engine = NewAnalyticsEngine
    /\ NoServer
    /\ NoCall
    /\ pc = "summary"

\* analytics["summary"] = self.generate_comprehensive_summary(analytics, pose_data)
GenerateSummary ==
    /\ pc = "summary"
    /\ analytics' = [analytics EXCEPT !.summary = generate_comprehensive_summary(analytics, pose_data)]
    /\ pc' = "summarised"
    /\ UNCHANGED <<pose_data, risk, engine, uploads, req, args, result>>

NextSummary == GenerateSummary

SpecSummary == InitSummary /\ [][NextSummary]_vars

\* upload_video: the "analytics" entry of the response.  The call of
\* compute_analytics is wrapped in one try; on any exception the whole
\* analytics becomes the empty dictionary.
ResponseAnalytics(report) == IF report.raised THEN <<>> ELSE report

(************************** the upload server ******************************)
\* upload_video is a plain `def`, so the server runs each call in a worker
\* thread next to the event loop that serves cleanup_job: the steps below
\* interleave.  The upload directory is the set `uploads` of file names; a
\* name is the sequence of the characters of the job id followed by the
\* extension.
MaxRequests == 1

Requests == 1 .. MaxRequests

\* uuid4 strings, cut to two characters
JobIds == {<<"a", "1">>, <<"b", "7">>}

\* the path parameter of DELETE /api/cleanup/{job_id}: any non-empty string
CleanupArgs == JobIds \cup {<<"a">>, <<"c", "3">>}

Filenames == {"clip.mp4", "CLIP.MOV", "walk.avi", "notes.txt", "clip"}

\* what the uploaded bytes are: a video, bytes OpenCV cannot open, or a
\* video on whose poses compute_analytics raises
Contents == {"video", "undecodable", "degrading"}

\* Path(file.filename).suffix.lower() (line 86)
FileExt(filename) ==
    CASE filename = "clip.mp4"  -> ".mp4"
      [] filename = "CLIP.MOV"  -> ".mov"
      [] filename = "walk.avi"  -> ".avi"
      [] filename = "notes.txt" -> ".txt"
      [] OTHER                  -> ""

allowed_extensions == {".mp4", ".mov", ".avi"}

\* UPLOAD_DIR / f"{job_id}{file_ext}" (line 98)
VideoPath(job_id, file_ext) == job_id \o <<file_ext>>

\* UPLOAD_DIR.glob(f"{job_id}*") (line 151): the names that start with job_id
Glob(dir, job_id) ==
    {f \in dir : Len(job_id) <= Len(f) /\ SubSeq(f, 1, Len(job_id)) = job_id}

IdleRequest ==
    [pc |-> "idle", filename |-> "", content |-> "", job_id |-> None,
     analytics |-> "none", status |-> 0, detail |-> ""]

\* the file a request has written, while it has one
PathOf(rq) == VideoPath(Val(rq.job_id), FileExt(rq.filename))

\* `except Exception as e: raise HTTPException(status_code=500, ...)`
\* (lines 138-143): whatever is raised inside the try, the HTTPException of
\* the type check included, leaves the handler as a 500
except_Exception(rq, e) == [rq EXCEPT !.pc = "done", !.status = 500, !.detail = e]

InitUpload ==
    /\ pose_data = <<>>
    /\ analytics = None
    /\ risk = None
    /\ engine = NewAnalyticsEngine
    /\ uploads = {}
    /\ req = [r \in Requests |-> IdleRequest]
    /\ NoCall
    /\ pc = "serving"

\* lines 84-92: the type check on the extension of the client's file name
ValidateFileType(r) ==
    /\ req[r].pc = "idle"
    /\ \E filename \in Filenames, content \in Contents :
          LET rq == [req[r] EXCEPT !.filename = filename, !.content = content]
          IN  req' = [req EXCEPT ![r] =
                        IF FileExt(filename) \notin allowed_extensions
                        THEN except_Exception(rq, "Invalid file type")
                        ELSE [rq EXCEPT !.pc = "validated"]]
    /\ UNCHANGED <<pose_data, analytics, risk, pc, engine, uploads, args, result>>

\* lines 94-100: a fresh job id, and the bytes copied to the upload directory
SaveFile(r) ==
    /\ req[r].pc = "validated"
    /\ \E job_id \in JobIds :
          /\ \A q \in Requests : req[q].job_id # Some(job_id)
          /\ uploads' = uploads \cup {VideoPath(job_id, FileExt(req[r].filename))}
          /\ req' = [req EXCEPT ![r].job_id = Some(job_id), ![r].pc = "saved"]
    /\ UNCHANGED <<pose_data, analytics, risk, pc, engine, args, result>>

\* lines 104-108: stream_frames opens the file when process_frames asks for
\* the first frame and raises when it cannot (video_processor.py lines 89-91,
\* 117-118)
ProcessStream(r) ==
    /\ req[r].pc = "saved"
    /\ req' = [req EXCEPT ![r] =
                 IF PathOf(req[r]) \in uploads /\ req[r].content # "undecodable"
                 THEN [req[r] EXCEPT !.pc = "posed"]
                 ELSE except_Exception(req[r], "Frame streaming failed")]
    /\ UNCHANGED <<pose_data, analytics, risk, pc, engine, uploads, args, result>>

\* lines 116-123: compute_analytics in its own try; on an exception the
\* analytics of the response is the empty dictionary
GuardedAnalytics(r) ==
    /\ req[r].pc = "posed"
    /\ req' = [req EXCEPT ![r].pc = "computed",
                          ![r].analytics = IF req[r].content = "degrading"
                                           THEN "empty" ELSE "report"]
    /\ UNCHANGED <<pose_data, analytics, risk, pc, engine, uploads, args, result>>

\* lines 125-136: video_path.unlink(), then the success response; unlink
\* raises FileNotFoundError when the file is gone
UnlinkAndRespond(r) ==
    /\ req[r].pc = "computed"
    /\ IF PathOf(req[r]) \in uploads
       THEN /\ uploads' = uploads \ {PathOf(req[r])}
            /\ req' = [req EXCEPT ![r].pc = "done", ![r].status = 200]
       ELSE /\ uploads' = uploads
            /\ req' = [req EXCEPT ![r] = except_Exception(req[r], "No such file or directory")]
    /\ UNCHANGED <<pose_data, analytics, risk, pc, engine, args, result>>

\* cleanup_job (lines 146-162) with path parameter job_id; OUTPUT_DIR holds
\* no file at any time.  `args` keeps the parameter of the latest call.
CleanupJobCall(job_id) ==
    /\ uploads' = uploads \ Glob(uploads, job_id)
    /\ args' = Some(job_id)
    /\ UNCHANGED <<pose_data, analytics, risk, pc, engine, req, result>>

CleanupJob == \E job_id \in CleanupArgs : CleanupJobCall(job_id)

UploadVideo ==
    \E r \in Requests :
        \/ ValidateFileType(r)
        \/ SaveFile(r)
        \/ ProcessStream(r)
        \/ GuardedAnalytics(r)
        \/ UnlinkAndRespond(r)

NextUpload == UploadVideo \/ CleanupJob

SpecUpload == InitUpload /\ [][NextUpload]_vars

(************************** properties *************************************)
\* the report has been produced (no stage raised)
Analysed == pc \in {"analysed", "predicted"}

\* the number of frames of a series that hold an angle below 160 degrees
LowCount(series) ==
    Cardinality({i \in 1 .. Len(series) : ~IsNone(series[i]) /\ Val(series[i]) < 160})

\* the landmarks the computation of each joint angle reads
RequiredLandmarks(k) ==
    CASE k \in {"left_elbow", "left_shoulder"}   -> {11, 13, 15}
      [] k \in {"right_elbow", "right_shoulder"} -> {12, 14, 16}
      [] k = "left_knee"  -> {23, 25, 27}
      [] k = "right_knee" -> {24, 26, 28}
      [] k = "left_hip"   -> {11, 23, 25}
      [] k = "right_hip"  -> {12, 24, 26}
      [] k = "neck"       -> {0, 11, 12}
      [] k = "spine"      -> {11, 12, 23, 24}

\* C1: each of the ten joint-angle series has exactly as many entries as the
\* input has frames, and entry i belongs to frame i: it is null when frame i
\* carries no landmarks and an angle when frame i carries every landmark.
C1_SeriesAlignedWithFrames ==
    Analysed =>
        \A k \in JointKeys :
            /\ Len(analytics.joint_angles[k]) = Len(pose_data)
            /\ \A i \in 1 .. Len(pose_data) :
                  /\ NoLandmarks(pose_data[i]) => IsNone(analytics.joint_angles[k][i])
                  /\ (~NoLandmarks(pose_data[i]) /\ pose_data[i].missing = {})
                        => ~IsNone(analytics.joint_angles[k][i])

\* a three-frame sequence: an undetected frame, then a partial one, then a
\* complete one, analysed
C1_Witness ==
    /\ Analysed
    /\ Len(pose_data) = 3
    /\ pose_data[1] = UndetectedFrame
    /\ pose_data[2] = FrameOf("bent", {25, 26})
    /\ pose_data[3] = FrameOf("neutral", {})
    /\ analytics.joint_angles["left_knee"] = <<None, None, Some(179)>>

\* C2: compute_joint_angles raises no exception, and in every frame a joint
\* angle is null exactly when its required landmarks are not all present
\* (the others are still computed).
C2_NullExactlyWhenLandmarkMissing ==
    pc # "start" =>
        /\ pc # "raised"
        /\ \A k \in JointKeys : \A i \in 1 .. Len(pose_data) :
              IsNone(analytics.joint_angles[k][i])
                 <=> ~HasAll(LandmarkDict(pose_data[i]), RequiredLandmarks(k))

\* C3: a 3-frame sequence of undetected frames goes through the pipeline
\* without an exception and gives all-null series, posture and symmetry
\* aggregates of 0, no anomalies, and exactly the placeholder prediction.
C3_AllUndetectedGivesPlaceholder ==
    (Len(pose_data) = 3 /\ \A i \in 1 .. 3 : NoLandmarks(pose_data[i])) =>
        /\ pc # "raised"
        /\ Analysed =>
              /\ \A k \in JointKeys : analytics.joint_angles[k] = <<None, None, None>>
              /\ analytics.posture_metrics.overall_posture_score = RInt(0)
              /\ analytics.symmetry_analysis.overall_score = RInt(0)
              /\ analytics.anomalies.anomaly_frames = <<>>
              /\ analytics.anomalies.anomaly_count = 0
        /\ pc = "predicted" => risk.predictions = <<Placeholder>>

\* C4: predictions is exactly the placeholder when no assessor scores above
\* 30, and otherwise exactly the assessments that score above 30 (30 itself
\* excluded) in non-increasing order of score; it has between 1 and 5 items.
C4_PredictionsAreTheRelevantAssessments ==
    pc = "predicted" =>
        LET ps   == risk.predictions
            as   == Assessments(analytics)
            over == {i \in 1 .. Len(as) : as[i].risk_score > 30}
        IN  /\ Len(ps) >= 1
            /\ Len(ps) <= 5
            /\ over = {} => ps = <<Placeholder>>
            /\ over # {} =>
                  /\ Len(ps) = Cardinality(over)
                  /\ {ps[i] : i \in 1 .. Len(ps)} = {as[i] : i \in over}
                  /\ \A i \in 1 .. Len(ps) - 1 : ps[i].risk_score >= ps[i + 1].risk_score

\* an assessor scored exactly 30 and is left out, while two others are in
C4_Witness ==
    /\ pc = "predicted"
    /\ \E i \in 1 .. 5 : Assessments(analytics)[i].risk_score = 30
    /\ Len(risk.predictions) = 2
    /\ risk.predictions[1].risk_score > risk.predictions[2].risk_score
    /\ \A i \in 1 .. 2 : risk.predictions[i].risk_score > 30

\* C5: every assessor's severity follows the same breakpoints: High from 60,
\* the middle tier from 40 up to 59, Low below 40 (the middle tier is
\* accepted under either of the names Medium and Moderate).
C5_SeverityBreakpoints ==
    pc = "predicted" =>
        \A i \in 1 .. 5 :
            LET p == Assessments(analytics)[i]
            IN  IF p.risk_score >= 60 THEN p.severity = "High"
                ELSE IF p.risk_score >= 40 THEN p.severity \in {"Medium", "Moderate"}
                     ELSE p.severity = "Low"

\* C6: overall_risk_level is High when the highest relevant score is at
\* least 70, Moderate from 50 up to 69, Low below 50, and Minimal exactly
\* when predictions is the placeholder; no warning sign at all gives Minimal.
C6_OverallLevelFromHighestScore ==
    pc = "predicted" =>
        LET as   == Assessments(analytics)
            over == {as[i].risk_score : i \in {j \in 1 .. Len(as) : as[j].risk_score > 30}}
            top  == CHOOSE m \in over : \A n \in over : n <= m
            lvl  == risk.overall_risk_level
        IN  /\ (lvl = "Minimal") <=> (risk.predictions = <<Placeholder>>)
            /\ over = {} => lvl = "Minimal"
            /\ over # {} =>
                  lvl = IF top >= 70 THEN "High"
                        ELSE IF top >= 50 THEN "Moderate" ELSE "Low"
            /\ (\A i \in 1 .. Len(as) : as[i].warning_signs = <<>>) => lvl = "Minimal"

\* the highest score is exactly 70 and the level is High
C6_Witness ==
    /\ pc = "predicted"
    /\ risk.predictions[1].risk_score = 70
    /\ risk.overall_risk_level = "High"

\* C7: the recommendations have at most 6 items, and when some prediction
\* scores at least 60 the urgent-consult message is the first item.
C7_CappedAndUrgentFirst ==
    pc = "predicted" =>
        /\ Len(risk.recommendations) <= 6
        /\ (\E i \in 1 .. Len(risk.predictions) : risk.predictions[i].risk_score >= 60)
              => risk.recommendations[1] = UrgentMessage

\* a prediction scores at least 60, knee and shoulder are among the top 3,
\* and the list was cut to 6 items
C7_Witness ==
    /\ pc = "predicted"
    /\ risk.predictions[1].risk_score >= 60
    /\ {"Knee", "Shoulder"} \subseteq
          {risk.predictions[i].body_part : i \in 1 .. Min2(3, Len(risk.predictions))}
    /\ Len(risk.recommendations) = 6
    /\ risk.recommendations[1] = UrgentMessage

\* C8: for each of the top-3 predictions about the knee, the spine/lower
\* back or the shoulder, the region's advice is among the recommendations.
C8_RegionAdviceListed ==
    pc = "predicted" =>
        LET recs == {risk.recommendations[i] : i \in 1 .. Len(risk.recommendations)}
        IN  \A i \in 1 .. Min2(3, Len(risk.predictions)) :
                LET part == risk.predictions[i].body_part
                IN  /\ part = "Knee" => KneeAdvice \in recs
                    /\ part = "Spine / Lower Back" => SpineAdvice \in recs
                    /\ part = "Shoulder" => ShoulderAdvice \in recs

\* the knee assessment of the same report with one knee series replaced by
\* neutral angles
NeutralKneeScore(side) ==
    LET series == analytics.joint_angles[side]
        ja     == [analytics.joint_angles EXCEPT
                      ![side] = [i \in 1 .. Len(series) |-> Some(175)]]
    IN  analyze_knee_risk(ja, analytics.symmetry_analysis, analytics.motion_metrics).risk_score

\* C9 as stated: a knee below 160 degrees in more than 10% of the frames
\* scores higher than with neutral angles, and the knee severity is High
\* whenever the proportion exceeds 20%.
C9_HighAboveTwentyPercent ==
    pc = "predicted" =>
        \A side \in {"left_knee", "right_knee"} :
            LET series == analytics.joint_angles[side]
                knee   == Assessments(analytics)[1]
            IN  /\ 10 * LowCount(series) > Len(series)
                      => knee.risk_score > NeutralKneeScore(side)
                /\ 5 * LowCount(series) > Len(series) => knee.severity = "High"

\* C9 amended: a knee below 160 degrees in more than 10% of the frames
\* scores higher than with neutral angles; the knee severity is High
\* exactly when the knee score is at least 60, whatever the proportion.
C9_HigherScoreSeverityFromScore ==
    pc = "predicted" =>
        \A side \in {"left_knee", "right_knee"} :
            LET series == analytics.joint_angles[side]
                knee   == Assessments(analytics)[1]
            IN  /\ 10 * LowCount(series) > Len(series)
                      => knee.risk_score > NeutralKneeScore(side)
                /\ (knee.severity = "High") <=> (knee.risk_score >= 60)

\* the left knee is below 160 degrees in one frame of six (between 10% and
\* 20%), and the knee assessment is among the predictions
C9_Witness ==
    /\ pc = "predicted"
    /\ analytics.joint_angles["left_knee"] = OneLowIn(6)
    /\ Assessments(analytics)[1].risk_score = 35
    /\ NeutralKneeScore("left_knee") = 0
    /\ risk.predictions[1].body_part = "Knee"

\* C10: the velocity signal of detect_anomalies has one entry for exactly
\* the consecutive pairs in which both frames carry landmarks.
C10_SignalOnlyFromDetectedPairs ==
    Analysed =>
        Len(analytics.anomalies.velocities) =
            Cardinality({i \in 1 .. Len(pose_data) - 1 :
                            ~NoLandmarks(pose_data[i]) /\ ~NoLandmarks(pose_data[i + 1])})

\* the dictionary detect_anomalies returns
ReportedAnomalies ==
    [k \in {"anomaly_frames", "anomaly_count", "severity"} |-> analytics.anomalies[k]]

\* what detect_anomalies returns after computing z-scores that flag nothing
NoAnomalyResult ==
    [anomaly_frames |-> <<>>, anomaly_count |-> 0, severity |-> "None"]

\* C11: with fewer than 10 transitions detect_anomalies returns count 0, no
\* anomaly frames, and a result that differs from a computed z-score result
\* without anomalies.
C11_InsufficientDataIsMarked ==
    (Analysed /\ Len(analytics.anomalies.velocities) < 10) =>
        /\ analytics.anomalies.anomaly_count = 0
        /\ analytics.anomalies.anomaly_frames = <<>>
        /\ ReportedAnomalies # NoAnomalyResult

\* C12: with at least 10 transitions, anomaly_count is the number of
\* anomaly frames, and severity is High exactly when the count is above 10%
\* of the transitions, Low exactly when it is positive but not above 10%,
\* None exactly when it is 0.
C12_SeverityFromAnomalyShare ==
    (Analysed /\ Len(analytics.anomalies.velocities) >= 10) =>
        LET an == analytics.anomalies
            n  == Len(an.velocities)
            c  == an.anomaly_count
        IN  /\ c = Len(an.anomaly_frames)
            /\ (an.severity = "High") <=> (10 * c > n)
            /\ (an.severity = "Low") <=> (c > 0 /\ 10 * c <= n)
            /\ (an.severity = "None") <=> (c = 0)

\* exactly 10 transitions with one anomaly (exactly 10%): Low
C12_Witness ==
    /\ Analysed
    /\ Len(analytics.anomalies.velocities) = 10
    /\ analytics.anomalies.anomaly_count = 1
    /\ analytics.anomalies.severity = "Low"

\* a rational lies in [0, 100]
InPercentRange(r) == RLeq(RInt(0), r) /\ RLeq(r, RInt(100))

\* C13: every per-frame and every aggregate score of the posture scorer and
\* of the symmetry analyzer lies in [0, 100].
C13_ScoresWithinPercentRange ==
    Analysed =>
        LET dicts == DetectedDicts(pose_data)
            po    == analytics.posture_metrics
            sy    == analytics.symmetry_analysis
        IN  /\ \A which \in {"spine", "shoulder", "hip"} :
                  LET ps == PostureScores(dicts, which)
                  IN  \A i \in 1 .. Len(ps) : ps[i] >= 0 /\ ps[i] <= 100
            /\ \A p \in 1 .. Len(SymmetricPairs) :
                  LET ps == PairScores(dicts, SymmetricPairs[p][1], SymmetricPairs[p][2])
                  IN  \A i \in 1 .. Len(ps) : ps[i] >= 0 /\ ps[i] <= 100
            /\ InPercentRange(po.spine_alignment_score)
            /\ InPercentRange(po.shoulder_balance_score)
            /\ InPercentRange(po.hip_balance_score)
            /\ InPercentRange(po.overall_posture_score)
            /\ InPercentRange(sy.overall_score)
            /\ \A lab \in PairLabels : InPercentRange(sy.by_body_part[lab])

\* a frame whose nose is more than the image width off the mid line and
\* whose wrists are more than the image height apart: both scores are
\* clamped to 0
C13_Witness ==
    /\ Analysed
    /\ pose_data = <<FrameOf("offframe", {})>>
    /\ analytics.posture_metrics.spine_alignment_score = RInt(0)
    /\ analytics.symmetry_analysis.by_body_part["wrists"] = RInt(0)
    /\ analytics.posture_metrics.hip_balance_score = RInt(100)

\* C14: overall_score is the mean of the by_body_part scores,
\* imbalance_detected holds exactly when overall_score < 80, and
\* most_asymmetric names a pair whose score is minimal.
C14_SymmetrySummary ==
    Analysed =>
        LET sy == analytics.symmetry_analysis
            n  == Len(SymmetricPairs)
        IN  /\ sy.overall_score =
                  MeanRat([i \in 1 .. n |-> sy.by_body_part[SymmetricPairs[i][3]]])
            /\ sy.imbalance_detected <=> RLess(sy.overall_score, RInt(80))
            /\ sy.most_asymmetric \in PairLabels
            /\ \A lab \in PairLabels :
                  RLeq(sy.by_body_part[sy.most_asymmetric], sy.by_body_part[lab])

\* a lifted left ankle: the ankles score 88, every other pair 100
C14_Witness ==
    /\ Analysed
    /\ pose_data = <<FrameOf("bent", {})>>
    /\ analytics.symmetry_analysis.by_body_part["ankles"] = RInt(88)
    /\ analytics.symmetry_analysis.most_asymmetric = "ankles"
    /\ analytics.symmetry_analysis.overall_score = RInt(98)
    /\ ~analytics.symmetry_analysis.imbalance_detected

\* the letter of a score: A from 90, B from 80, C from 70, D from 60, else F
LetterFor(score) ==
    IF RLeq(RInt(90), score) THEN "A"
    ELSE IF RLeq(RInt(80), score) THEN "B"
    ELSE IF RLeq(RInt(70), score) THEN "C"
    ELSE IF RLeq(RInt(60), score) THEN "D" ELSE "F"

\* C15: posture_grade is the letter of overall_posture_score under the
\* breakpoints 90 / 80 / 70 / 60.
C15_PostureGradeFromScore ==
    Analysed =>
        analytics.posture_metrics.posture_grade =
            LetterFor(analytics.posture_metrics.overall_posture_score)


\* C16: the summary's overall_score is the mean of the posture overall score,
\* the symmetry overall score and the movement-quality score, and its grade
\* is the letter of that score (>= 90 A, >= 80 B, >= 70 C, >= 60 D, else F),
\* a boundary value falling in the higher grade.
C16_SummaryScoreAndGrade ==
    pc = "summarised" =>
        LET sm == analytics.summary
            o  == sm.overall_score
        IN  /\ RAdd(RAdd(o, o), o)
                 = RAdd(RAdd(analytics.posture_metrics.overall_posture_score,
                             analytics.symmetry_analysis.overall_score),
                        analytics.movement_quality.smoothness)
            /\ sm.grade = LetterFor(o)

\* posture 100 and symmetry 84.5 with smoothness 85.5: exactly 90, graded A
C16_Witness ==
    /\ pc = "summarised"
    /\ analytics.posture_metrics.overall_posture_score = RInt(100)
    /\ analytics.symmetry_analysis.overall_score = Rat(169, 2)
    /\ analytics.summary.overall_score = RInt(90)
    /\ analytics.summary.grade = "A"

\* C17: when one stage raises, the response still carries the report: the
\* entries of the other stages with their computed values, and an empty
\* object for the stage that raised.
C17_OnlyFailedStageEmptied ==
    pc = "raised" =>
        LET r == ResponseAnalytics(analytics)
        IN  /\ r # <<>>
            /\ r.joint_angles = <<>>
            /\ r.posture_metrics = compute_posture_metrics(pose_data)
            /\ r.symmetry_analysis = compute_symmetry_analysis(pose_data)

\* C18: for the empty sequence no stage raises, every series is empty and
\* every numeric score of the report is 0.
C18_EmptySequenceAllZero ==
    (pose_data = <<>> /\ pc # "start") =>
        /\ pc # "raised"
        /\ \A k \in DOMAIN analytics.joint_angles : analytics.joint_angles[k] = <<>>
        /\ analytics.posture_metrics.overall_posture_score = RInt(0)
        /\ analytics.symmetry_analysis.overall_score = RInt(0)
        /\ analytics.motion_metrics.max_velocity = RInt(0)
        /\ analytics.anomalies.anomaly_count = 0
        /\ analytics.summary.total_frames = 0
        /\ analytics.summary.duration_seconds = RInt(0)
        /\ analytics.summary.overall_score = RInt(0)

\* the computed metrics the risk assessment is said to be a function of
ComputedMetrics(a) ==
    [joint_angles      |-> a.joint_angles,
     symmetry_analysis |-> a.symmetry_analysis,
     posture_metrics   |-> a.posture_metrics,
     motion_metrics    |-> a.motion_metrics,
     anomalies         |-> [k \in {"anomaly_frames", "anomaly_count", "severity"} |->
                               a.anomalies[k]]]

WithFrames(a, n) == [a EXCEPT !.summary = [total_frames |-> n]]

\* C20: with the predictor run before the summary generator, ai_confidence
\* never exceeds 95, is not smaller than for a report of fewer frames with
\* otherwise equal metrics, and for more than 200 frames is strictly larger
\* than for at most 50 frames.
C20_ConfidenceGrowsWithFrames ==
    pc = "predicted_early" =>
        /\ risk.ai_confidence <= 95
        /\ \A n \in {0, 50, 51, 100, 101, 200, 201} :
              LET c == calculate_confidence(AnalyticsBeforeSummary(WithFrames(analytics, n)))
              IN  /\ n <= analytics.summary.total_frames => c <= risk.ai_confidence
                  /\ (n <= 50 /\ analytics.summary.total_frames > 200)
                        => c < risk.ai_confidence

RaysCollinear(a, b, c, dir) ==
    LET u == <<a.x - b.x, a.y - b.y, a.z - b.z>>
        v == <<c.x - b.x, c.y - b.y, c.z - b.z>>
    IN  /\ u[1] * v[2] = u[2] * v[1]
        /\ u[2] * v[3] = u[3] * v[2]
        /\ u[1] * v[3] = u[3] * v[1]
        /\ dir * (u[1] * v[1] + u[2] * v[2] + u[3] * v[3]) > 0

\* C22: calculate_angle(a, b, c) = calculate_angle(c, b, a); it is 180 when
\* a and c lie on opposite collinear rays from b, 0 when the two rays
\* coincide, and it returns a value when a = b or c = b.
C22_AngleProperties ==
    pc = "returned" =>
        /\ result.angle = result.swapped
        /\ RaysCollinear(args[1], args[2], args[3], -1) => result.angle = 180
        /\ RaysCollinear(args[1], args[2], args[3], 1) => result.angle = 0
        /\ (args[1] = args[2] \/ args[3] = args[2]) => result.angle \in 0 .. 180

\* C23: what a stage returns has one frame per input frame, in the order of
\* the input; the frame of an input without a pose is in its place, without
\* landmarks.
C23_OneFramePerInputFrame ==
    pc \in {"estimated", "filtered", "reconstructed", "smoothed"} =>
        /\ Len(result) = Len(args)
        /\ \A i \in 1 .. Len(result) :
              /\ result[i].frame_index = i - 1
              /\ result[i].pose_detected = (args[i] # None)
              /\ (result[i].landmarks = <<>>) = (args[i] = None)

\* six frames, the third without a pose, after the smoothing
C23_Witness ==
    /\ pc = "smoothed"
    /\ Len(args) = 6
    /\ args[3] = None
    /\ args[4] # None
    /\ result[3].landmarks = <<>>
    /\ Len(result[4].landmarks) = 33

C25_AnomalyFramesAreInputTransitions ==
    Analysed =>
        LET an == analytics.anomalies
            fr == an.anomaly_frames
        IN  /\ \A a, b \in DOMAIN fr : a < b => fr[a] < fr[b]
            /\ \A a \in DOMAIN fr :
                  /\ fr[a] < Len(pose_data) - 1
                  /\ ~AnomalyPairSkipped(pose_data[fr[a] + 1], pose_data[fr[a] + 2])
                  /\ an.velocities[fr[a] + 1]
                       = TotalVelocity(LandmarkDict(pose_data[fr[a] + 1]),
                                       LandmarkDict(pose_data[fr[a] + 2]))

\* C26: the left_shoulder series is entry for entry the left_elbow series and
\* the right_shoulder series the right_elbow series: every shoulder entry is
\* the angle at the elbow between the shoulder and the wrist.
C26_ShoulderSeriesAreElbowSeries ==
    (Analysed /\ "left_shoulder" \in DOMAIN analytics.joint_angles) =>
        LET ja == analytics.joint_angles
        IN  /\ ja["left_shoulder"] = ja["left_elbow"]
            /\ ja["right_shoulder"] = ja["right_elbow"]
            /\ \A i \in 1 .. Len(pose_data) :
                  ~NoLandmarks(pose_data[i]) =>
                      LET lms == LandmarkDict(pose_data[i])
                      IN  /\ ja["left_shoulder"][i] = AngleOrNone(lms, 11, 13, 15)
                          /\ ja["right_shoulder"][i] = AngleOrNone(lms, 12, 14, 16)

\* a report whose left_shoulder series holds the elbow's angle of a frame in
\* which the angle at the shoulder is a different one
C26_Witness ==
    /\ Analysed
    /\ "left_shoulder" \in DOMAIN analytics.joint_angles
    /\ \E i \in 1 .. Len(pose_data) :
          /\ ~NoLandmarks(pose_data[i])
          /\ ~IsNone(analytics.joint_angles["left_shoulder"][i])
          /\ LET lms == LandmarkDict(pose_data[i])
             IN  /\ HasAll(lms, {11, 13, 23})
                 /\ Val(analytics.joint_angles["left_shoulder"][i])
                        # calculate_angle(lms[23], lms[11], lms[13])

C28_BadExtensionRejectedWith400 ==
    \A r \in Requests :
        (req[r].pc = "done" /\ FileExt(req[r].filename) \notin allowed_extensions) =>
            /\ req[r].status = 400
            /\ IsNone(req[r].job_id)

\* C29: a request that saved a video file has removed it from the upload
\* directory by the time it completes, with a success response, with degraded
\* analytics, or with an error during frame streaming or pose estimation.
C29_SavedFileRemovedAtCompletion ==
    \A r \in Requests :
        (req[r].pc = "done" /\ ~IsNone(req[r].job_id)) => PathOf(req[r]) \notin uploads

\* C30: a cleanup_job call whose job_id is not the id of a running upload
\* leaves that upload's saved file in the upload directory: from SaveFile to
\* UnlinkAndRespond no such call removes it.
C30_CleanupOfOtherIdKeepsFile ==
    [][\A r \in Requests, j \in CleanupArgs :
          ( /\ req[r].pc \in {"saved", "posed", "computed"}
            /\ PathOf(req[r]) \in uploads
            /\ Some(j) # req[r].job_id
            /\ CleanupJobCall(j) )
          => PathOf(req[r]) \in uploads']_vars

====
